---------------------------- MODULE Spec2Model ----------------------------
(***************************************************************************)
(* Routing core of omim: the border-crossing scan and the leap-weight      *)
(* builder of the cross-mwm section, the joint builder of the routing      *)
(* index (generator/routing_index_generator.cpp), and the road graph with  *)
(* its fake-edge overlay (routing/road_graph.hpp).                         *)
(*                                                                         *)
(* Indices are the code's 0-based indices; a TLA+ sequence is 1-based, so  *)
(* element i of a C++ vector v is v[i + 1].                                *)
(***************************************************************************)
EXTENDS Integers, Sequences, FiniteSets, TLC

(***************************************************************************)
(* Bounds of the model.                                                    *)
(***************************************************************************)
\* Largest coordinate of a point of the border scan (points lie on a line).
MaxScanCoord == 1
\* Largest number of border regions loaded from the .poly file.
MaxRegions == 2
\* Largest number of points of a feature of the border scan.
MaxScanPoints == 3
\* Largest number of features the feature reader delivers to the scan.
MaxScanFeatures == 2
\* Largest x and y coordinate of a point of an indexed feature, in units finer
\* than the quantisation grid.
MaxDatX == 2
MaxDatY == 1
\* Bits per coordinate of the quantised location key in the model (the map
\* format's POINT_COORD_BITS scaled down to the model's coordinates).
CoordBits == 1
\* Largest number of points of an indexed feature.
MaxDatPoints == 2
\* Largest number of features the feature reader delivers to the Processor.
MaxDatFeatures == 2
\* Number of segments (vertices) of the in-tile index graph.
NumSegments == 3
\* Largest weight of an edge of the index graph.
MaxEdgeWeight == 3
\* Largest number of enters, and of exits, of the connector.
MaxEnters == 2
MaxExits == 2
\* Largest x coordinate of a point of the road graph; the unit is half of
\* kPointsEqualEpsilon, so that neighbouring points are equal up to epsilon.
MaxRoadX == 2
\* The y coordinate of the points off the roads (the roads lie on y = 0).
OffRoadY == 2
\* Largest altitude of a junction.
MaxAltitude == 1
\* Largest number of points of a road.
MaxRoadPoints == 3
\* Largest number of roads of the graph when only its real edges are asked
\* for, and when fake edges are added.
MaxRoads == 2
MaxRoadsWithFakes == 1
\* Largest count handed to FindClosestEdges.
MaxVicinities == 2
\* Largest number of calls of AddFakeEdges in a run.
MaxAddFakeCalls == 2
MaxReversals == 2
MaxSectionBytes == 3
\* Largest number of messages posted to the backend renderer in a run.
MaxApiMessages == 4
\* Largest id of a user mark layer.
MaxLayerId == 1

VARIABLES
  \* ---- CalcCrossMwmTransitions ----
  borders,        \* vector<m2::RegionD> borders
  scanPc,         \* position of the scan: "next" | "loop" | "done"
  scanFeatureId,  \* featureId of the feature being scanned (= features seen)
  scanF,          \* the feature the lambda was called with
  scanI,          \* loop variable i
  prevPointIn,    \* bool prevPointIn
  transitions,    \* vector<CrossMwmConnectorSerializer::Transition>
  connectors,     \* CrossMwmConnectorPerVehicleType
  \* ---- Processor / BuildRoutingIndex ----
  dat,            \* the features ForEachFromDat has delivered, by feature id
  procPc,         \* position of the build: "features" | "built" | "idle"
  m_posToJoint,   \* unordered_map<uint64_t, Joint> m_posToJoint
  m_masks,        \* unordered_map<uint32_t, VehicleMask> m_masks
  importedJoints, \* the vector<Joint> handed to IndexGraph::Import
  \* ---- FillWeights ----
  graphW,         \* IndexGraph: weight of the edge u -> v, or NoEdge
  enters,         \* connector.GetEnters()
  exits,          \* connector.GetExits()
  leapPc,         \* position: "loop" | "wave" | "done" | "idle"
  enterIdx,       \* loop variable i of FillWeights
  distanceMap,    \* map<Segment, double> distanceMap
  queue,          \* the priority queue of the running wave
  weights,        \* map<Segment, map<Segment, double>> weights
  connWeights,    \* the connector's weight table, by (enter index, exit index)
  \* ---- IRoadGraph ----
  roads,          \* the RoadInfo of every feature, by feature id
  mode,           \* GetMode()
  m_fakeIngoingEdges,   \* map<Junction, TEdgeVector>
  m_fakeOutgoingEdges,  \* map<Junction, TEdgeVector>
  addFakeCalls,   \* number of calls of AddFakeEdges so far
  lastOp,         \* the operation called last
  lastJunction,   \* its junction argument
  lastEdges,      \* the edges (or vicinities) it returned
  \* ---- BuildRoutingIndex and BuildCrossMwmSection ----
  builder,        \* which of the two entry points runs
  availableModels,\* the vehicle types the factories have a model of
  buildPc,        \* position in the entry point
  ioDone,         \* the files opened or read so far
  buildResult,    \* how the entry point ended
  errorLogged,    \* LOG(LERROR, ...) of the catch clause was called
  sectionTotal,   \* bytes a complete serialisation of the section writes
  sectionWritten, \* bytes written to the section's writer so far
  sectionCommitted, \* the container was finished with the section in it
  \* ---- BackendRenderer ----
  backendQueue,   \* the messages posted to the backend thread, oldest first
  renderQueue,    \* the messages posted to the render thread, next one first
  m_routeCache,   \* the recache ids of the routes RouteBuilder has cached
  postedCount,    \* number of messages the backend has posted so far
  apiCount,       \* number of messages posted to the backend so far
  processed,      \* the messages the render thread has processed, in order
  providerDirty,  \* per user mark layer: IsDirty() of its UserMarksProvider
  userMarkCalls   \* the calls made on UpdateUserMarkLayer messages, in order

scanVars == <<borders, scanPc, scanFeatureId, scanF, scanI, prevPointIn,
              transitions, connectors>>

procVars == <<dat, procPc, m_posToJoint, m_masks, importedJoints>>

leapVars == <<graphW, enters, exits, leapPc, enterIdx, distanceMap, queue,
              weights, connWeights>>

roadVars == <<roads, mode, m_fakeIngoingEdges, m_fakeOutgoingEdges,
              addFakeCalls, lastOp, lastJunction, lastEdges>>

buildVars == <<builder, availableModels, buildPc, ioDone, buildResult,
               errorLogged, sectionTotal, sectionWritten, sectionCommitted>>

renderVars == <<backendQueue, renderQueue, m_routeCache, postedCount, apiCount,
                processed, providerDirty, userMarkCalls>>

vars == <<scanVars, procVars, leapVars, roadVars, buildVars, renderVars>>

(***************************************************************************)
(* Small helpers.                                                          *)
(***************************************************************************)
Range(s) == {s[k] : k \in 1..Len(s)}

SeqsUpTo(S, n) == UNION {[1..k -> S] : k \in 0..n}

\* The orders in which a container without a specified order may be iterated.
Orders(S) ==
  {o \in [1..Cardinality(S) -> S] : \A a, b \in DOMAIN o : a # b => o[a] # o[b]}

(***************************************************************************)
(* Vehicle types and masks (routing/vehicle_mask.hpp).                     *)
(***************************************************************************)
Pedestrian == 0
Bicycle == 1
Car == 2
VehicleTypes == {Pedestrian, Bicycle, Car}

kPedestrianMask == 1
kBicycleMask == 2
kCarMask == 4

\* GetVehicleMask(vehicleType): 1 << vehicleType.
GetVehicleMask(vehicleType) == 2 ^ vehicleType

\* (a & bit) != 0 for a single-bit mask.
MaskAnd(a, bit) == ((a \div bit) % 2) * bit

(***************************************************************************)
(* Features and the vehicle models.  A feature carries its classification  *)
(* type and its polyline; a vehicle model is the pair of predicates        *)
(* IsRoad / IsOneWay over the feature's type.                              *)
(***************************************************************************)
FeatureTypes == {"none", "footway", "motorway", "residential"}

\* IVehicleModel::IsRoad of the model of vehicleType.
IsRoad(vehicleType, f) ==
  CASE vehicleType = Pedestrian -> f.type \in {"footway", "residential"}
    [] vehicleType = Bicycle    -> f.type \in {"footway", "residential"}
    [] vehicleType = Car        -> f.type \in {"motorway", "residential"}

\* IVehicleModel::IsOneWay of the model of vehicleType.
IsOneWay(vehicleType, f) ==
  CASE vehicleType = Pedestrian -> FALSE
    [] vehicleType = Bicycle    -> FALSE
    [] vehicleType = Car        -> f.type = "motorway"

\* VehicleMaskBuilder::CalcMask
CalcMask(f, fn(_, _)) ==
  LET m0 == 0
      m1 == IF fn(Pedestrian, f) THEN m0 + kPedestrianMask ELSE m0
      m2 == IF fn(Bicycle, f) THEN m1 + kBicycleMask ELSE m1
      m3 == IF fn(Car, f) THEN m2 + kCarMask ELSE m2
  IN m3

CalcRoadMask(f) == CalcMask(f, IsRoad)

CalcOneWayMask(f) == CalcMask(f, IsOneWay)

GetPointsCount(f) == Len(f.points)

GetPoint(f, i) == f.points[i + 1]

(***************************************************************************)
(* CalcCrossMwmTransitions: the border-crossing scan.                      *)
(***************************************************************************)
ScanPoints == 0..MaxScanCoord

\* A region is the set of the points it contains (m2::RegionD::Contains).
Regions == SUBSET ScanPoints

RegionContains(region, point) == point \in region

\* A plausible slip of RegionsContain: "return false" inside the loop, so that
\* only the first region is looked at.
RegionsContainFirstOnly(regions, point) ==
  IF Len(regions) = 0 THEN FALSE ELSE RegionContains(regions[1], point)

RECURSIVE RegionsContainFrom(_, _, _)
RegionsContainFrom(regions, point, k) ==
  IF k > Len(regions) THEN FALSE
  ELSE IF RegionContains(regions[k], point) THEN TRUE
       ELSE RegionsContainFrom(regions, point, k + 1)

RegionsContain(regions, point) == RegionsContainFrom(regions, point, 1)

ScanFeatures ==
  [type : FeatureTypes, points : SeqsUpTo(ScanPoints, MaxScanPoints)]

NoFeature == [type |-> "none", points |-> <<>>]

\* CrossMwmConnectorSerializer::Transition(featureId, segmentIdx, roadMask,
\* oneWayMask, enterSide, point, point): the two points are stored in the
\* order they are passed.
Transition(featureId, segmentIdx, roadMask, oneWayMask, enterSide, p0, p1) ==
  [featureId |-> featureId, segmentIdx |-> segmentIdx, roadMask |-> roadMask,
   oneWayMask |-> oneWayMask, enterSide |-> enterSide,
   pointOnInside |-> p0, pointOnOutside |-> p1]

\* A Segment: feature id, segment index, direction.
Segment(featureId, segmentIdx, forward) ==
  [featureId |-> featureId, segmentIdx |-> segmentIdx, forward |-> forward]

\* A CrossMwmConnector as its constructor leaves it: no enter, no exit and an
\* empty weight table.
EmptyConnector == [enters |-> <<>>, exits |-> <<>>, weights |-> <<>>]

\* A plausible slip of AddTransition: the road mask is not looked at.
AddTransitionWithoutMask(t, mask, connector) ==
  IF t.enterSide
  THEN [connector EXCEPT
          !.enters = Append(@, Segment(t.featureId, t.segmentIdx, TRUE))]
  ELSE [connector EXCEPT
          !.exits = Append(@, Segment(t.featureId, t.segmentIdx, TRUE))]

\* CrossMwmConnectorSerializer::AddTransition(transition, mask, connector):
\* the transition joins the connector when the vehicle's bit is in its road
\* mask, as an enter when enterSide and as an exit otherwise.
AddTransition(t, mask, connector) ==
  IF MaskAnd(t.roadMask, mask) = 0 THEN connector
  ELSE IF t.enterSide
       THEN [connector EXCEPT
               !.enters = Append(@, Segment(t.featureId, t.segmentIdx, TRUE))]
       ELSE [connector EXCEPT
               !.exits = Append(@, Segment(t.featureId, t.segmentIdx, TRUE))]

ScanInit ==
  /\ borders \in SeqsUpTo(Regions, MaxRegions)
  /\ scanPc = "next"
  /\ scanFeatureId = 0
  /\ scanF = NoFeature
  /\ scanI = 0
  /\ prevPointIn = FALSE
  /\ transitions = <<>>
  /\ connectors = [v \in VehicleTypes |-> EmptyConnector]

ScanIdle ==
  /\ borders = <<>>
  /\ scanPc = "done"
  /\ scanFeatureId = 0
  /\ scanF = NoFeature
  /\ scanI = 0
  /\ prevPointIn = FALSE
  /\ transitions = <<>>
  /\ connectors = [v \in VehicleTypes |-> EmptyConnector]

\* The lambda is entered with feature f: the two early returns, and the
\* initialisation of prevPointIn.
ScanFeatureEnters(f) ==
  IF CalcRoadMask(f) = 0 \/ GetPointsCount(f) = 0
  THEN /\ scanFeatureId' = scanFeatureId + 1
       /\ UNCHANGED <<scanPc, scanF, scanI, prevPointIn>>
  ELSE /\ scanF' = f
       /\ prevPointIn' = RegionsContain(borders, GetPoint(f, 0))
       /\ scanI' = 1
       /\ scanPc' = "loop"
       /\ UNCHANGED scanFeatureId

ScanFeature ==
  /\ scanPc = "next"
  /\ scanFeatureId < MaxScanFeatures
  /\ \E f \in ScanFeatures : ScanFeatureEnters(f)
  /\ UNCHANGED <<borders, transitions, connectors, procVars, leapVars, roadVars, buildVars, renderVars>>

\* A plausible slip of the emission: the transition is put in front of the
\* list.
EmplaceFront(list, t) == <<t>> \o list

\* vector::emplace_back
EmplaceBack(list, t) == Append(list, t)

\* A plausible slip of the flip test: the previous point is not looked at.
ScanFlippedIgnoresPrev(currPointIn, prev) == currPointIn

\* The condition under which the loop body emits a transition for index i.
ScanFlipped(currPointIn, prev) == currPointIn # prev

\* A plausible slip of the loop body: the assignment after a flip is missing.
PrevPointInAfterFlipKept(currPointIn, prev) == prev

\* prevPointIn = currPointIn, the last statement of the loop body.
PrevPointInAfterFlip(currPointIn, prev) == currPointIn

\* One iteration of the loop over i.
ScanStep ==
  /\ scanPc = "loop"
  /\ scanI < GetPointsCount(scanF)
  /\ LET currPointIn == RegionsContain(borders, GetPoint(scanF, scanI))
         t == Transition(scanFeatureId, scanI - 1, CalcRoadMask(scanF),
                         CalcOneWayMask(scanF), currPointIn,
                         GetPoint(scanF, scanI - 1), GetPoint(scanF, scanI))
     IN IF ~ScanFlipped(currPointIn, prevPointIn)
        THEN UNCHANGED <<transitions, connectors, prevPointIn>>
        ELSE /\ transitions' = EmplaceBack(transitions, t)
             /\ connectors' = [v \in VehicleTypes |->
                                 AddTransition(t, GetVehicleMask(v), connectors[v])]
             /\ prevPointIn' = PrevPointInAfterFlip(currPointIn, prevPointIn)
  /\ scanI' = scanI + 1
  /\ UNCHANGED <<borders, scanPc, scanFeatureId, scanF, procVars, leapVars, roadVars, buildVars, renderVars>>

\* The loop condition fails: the lambda returns.
ScanFeatureLeaves ==
  /\ scanPc = "loop"
  /\ ~(scanI < GetPointsCount(scanF))
  /\ scanPc' = "next"
  /\ scanFeatureId' = scanFeatureId + 1
  /\ UNCHANGED <<borders, scanF, scanI, prevPointIn, transitions, connectors,
                 procVars, leapVars, roadVars, buildVars, renderVars>>

\* ForEachFromDat has delivered its last feature.
ScanDone ==
  /\ scanPc = "next"
  /\ scanPc' = "done"
  /\ UNCHANGED <<borders, scanFeatureId, scanF, scanI, prevPointIn,
                 transitions, connectors, procVars, leapVars, roadVars, buildVars, renderVars>>

(***************************************************************************)
(* Processor: joints of the routing index.                                 *)
(***************************************************************************)
DatPoints == (0..MaxDatX) \X (0..MaxDatY)

DatFeatures == [type : FeatureTypes, points : SeqsUpTo(DatPoints, MaxDatPoints)]

\* CoordSize(coordBits): the largest quantised coordinate.
CoordSize(coordBits) == 2 ^ coordBits - 1

\* One coordinate of PointD2PointU: c in [0, span] is scaled to
\* [0, CoordSize] and rounded, static_cast<uint32_t>(0.5 + c / span * size).
QuantiseCoord(c, span, coordBits) ==
  (2 * c * CoordSize(coordBits) + span) \div (2 * span)

RECURSIVE BitwiseMerge(_, _, _)
\* bits::BitwiseMerge: the bits of x at the even places, of y at the odd ones.
BitwiseMerge(x, y, nbits) ==
  IF nbits = 0 THEN 0
  ELSE (x % 2) + 2 * (y % 2) + 4 * BitwiseMerge(x \div 2, y \div 2, nbits - 1)

\* PointToInt64(point, coordBits)
PointToInt64(point, coordBits) ==
  BitwiseMerge(QuantiseCoord(point[1], MaxDatX, coordBits),
               QuantiseCoord(point[2], MaxDatY, coordBits), coordBits)

RoadPoint(featureId, pointId) == [featureId |-> featureId, pointId |-> pointId]

\* Joint::AddPoint
JointAddPoint(joint, rp) == Append(joint, rp)

\* Joint::GetSize
JointGetSize(joint) == Len(joint)

\* m_posToJoint[locationKey]: operator[] creates an empty Joint for a new key.
PosToJointAt(posToJoint, key) ==
  IF key \in DOMAIN posToJoint THEN posToJoint[key] ELSE <<>>

MapPut(m, key, value) ==
  [k \in DOMAIN m \cup {key} |-> IF k = key THEN value ELSE m[k]]

\* A plausible slip of the key computation: the key of the first point is
\* used for every point of the feature.
LocationKeyOfFirstPoint(f, i) == PointToInt64(GetPoint(f, 0), CoordBits)

\* uint64_t const locationKey = PointToInt64(f.GetPoint(i), POINT_COORD_BITS)
LocationKey(f, i) == PointToInt64(GetPoint(f, i), CoordBits)

RECURSIVE AddPointsFrom(_, _, _, _)
\* The loop of ProcessFeature over the points i, i + 1, ... of f.
AddPointsFrom(posToJoint, f, id, i) ==
  IF ~(i < GetPointsCount(f)) THEN posToJoint
  ELSE LET locationKey == LocationKey(f, i)
       IN AddPointsFrom(
            MapPut(posToJoint, locationKey,
                   JointAddPoint(PosToJointAt(posToJoint, locationKey),
                                 RoadPoint(id, i))),
            f, id, i + 1)

ProcInit ==
  /\ dat = <<>>
  /\ procPc = "features"
  /\ m_posToJoint = <<>>
  /\ m_masks = <<>>
  /\ importedJoints = <<>>

ProcIdle ==
  /\ dat = <<>>
  /\ procPc = "idle"
  /\ m_posToJoint = <<>>
  /\ m_masks = <<>>
  /\ importedJoints = <<>>

\* A plausible slip of ProcessFeature: a feature without points is dropped
\* before its mask is stored.
ProcessFeatureBodySkippingEmpty(f, id) ==
  LET mask == CalcRoadMask(f)
  IN IF mask = 0 \/ GetPointsCount(f) = 0
     THEN UNCHANGED <<m_posToJoint, m_masks>>
     ELSE /\ m_masks' = MapPut(m_masks, id, mask)
          /\ m_posToJoint' = AddPointsFrom(m_posToJoint, f, id, 0)

\* A plausible slip of ProcessFeature: the test of the mask is missing.
ProcessFeatureBodyWithoutMaskTest(f, id) ==
  /\ m_masks' = MapPut(m_masks, id, CalcRoadMask(f))
  /\ m_posToJoint' = AddPointsFrom(m_posToJoint, f, id, 0)

\* Processor::ProcessFeature(f, id)
ProcessFeatureBody(f, id) ==
  LET mask == CalcRoadMask(f)
  IN IF mask = 0
     THEN UNCHANGED <<m_posToJoint, m_masks>>
     ELSE /\ m_masks' = MapPut(m_masks, id, mask)
          /\ m_posToJoint' = AddPointsFrom(m_posToJoint, f, id, 0)

\* ForEachFromDat calls ProcessFeature with the next feature of the file.
ProcessFeature ==
  /\ procPc = "features"
  /\ Len(dat) < MaxDatFeatures
  /\ \E f \in DatFeatures :
       /\ ProcessFeatureBody(f, Len(dat))
       /\ dat' = Append(dat, f)
  /\ UNCHANGED <<procPc, importedJoints, scanVars, leapVars, roadVars, buildVars, renderVars>>

\* A plausible slip of the size filter: every joint is kept.
JointIsConnectedAlways(joint) == JointGetSize(joint) >= 1

\* Need only connected points (2 or more roads)
JointIsConnected(joint) == JointGetSize(joint) >= 2

RECURSIVE CollectJoints(_, _, _)
\* The loop of BuildGraph over m_posToJoint, iterated in the order keys.
CollectJoints(posToJoint, keys, k) ==
  IF k > Len(keys) THEN <<>>
  ELSE IF JointIsConnected(posToJoint[keys[k]])
       THEN <<posToJoint[keys[k]]>> \o CollectJoints(posToJoint, keys, k + 1)
       ELSE CollectJoints(posToJoint, keys, k + 1)

\* Processor::BuildGraph: graph.Import(joints).  The iteration order of the
\* unordered_map is not specified.
BuildGraph ==
  /\ procPc = "features"
  /\ \E keys \in Orders(DOMAIN m_posToJoint) :
       importedJoints' = CollectJoints(m_posToJoint, keys, 1)
  /\ procPc' = "built"
  /\ UNCHANGED <<dat, m_posToJoint, m_masks, scanVars, leapVars, roadVars, buildVars, renderVars>>

ProcNext == ProcessFeature \/ BuildGraph

(***************************************************************************)
(* FillWeights: the leap weights of a connector, by one Dijkstra wave per  *)
(* enter over the in-tile index graph.  A segment of the index graph is    *)
(* one of 0 .. NumSegments-1, in Segment order.                            *)
(***************************************************************************)
Segs == 0..(NumSegments - 1)

NoEdge == -1

\* The weights the edge estimator gives: short and long edges.
EdgeWeights == {1, MaxEdgeWeight}

\* The index graphs: a weight or NoEdge for every pair of distinct segments.
Graphs ==
  {g \in [Segs \X Segs -> EdgeWeights \cup {NoEdge}] :
     \A u \in Segs : g[<<u, u>>] = NoEdge}

\* CrossMwmConnector::kNoRoute
kNoRoute == -1

SegmentEdge(target, weight) == [target |-> target, weight |-> weight]

RECURSIVE EdgeListFrom(_, _, _)
EdgeListFrom(g, vertex, v) ==
  IF v > NumSegments - 1 THEN <<>>
  ELSE IF g[<<vertex, v>>] # NoEdge
       THEN <<SegmentEdge(v, g[<<vertex, v>>])>> \o EdgeListFrom(g, vertex, v + 1)
       ELSE EdgeListFrom(g, vertex, v + 1)

\* DijkstraWrapper::GetOutgoingEdgesList: IndexGraph::GetEdgeList(vertex,
\* true /* isOutgoing */, edges).
GetOutgoingEdgesList(g, vertex) == EdgeListFrom(g, vertex, 0)

\* A plausible slip of the stop predicate: the wave is stopped at the first
\* exit it takes from the queue, as a bounded search would be.
ShouldStopAtExit(vertex) == vertex \in Range(exits)

\* The wave's stop predicate handed over by FillWeights.
ShouldStop(vertex) == FALSE

\* A plausible slip of the weight adjustment: the sign is turned.
AdjustEdgeWeightNegated(vertex, edge) == 0 - edge.weight

\* The weight adjustment handed over by FillWeights: edge.GetWeight().
AdjustEdgeWeight(vertex, edge) == edge.weight

\* The state on top of the queue: least distance, ties by Segment order.
QueueTop(q) ==
  CHOOSE st \in q :
    \A other \in q :
      \/ st[1] < other[1]
      \/ (st[1] = other[1] /\ st[2] <= other[2])

RECURSIVE RelaxFrom(_, _, _, _)
\* The loop of the wave over the edges adj[k], adj[k+1], ... of stateV: wave
\* is the pair <<bestDistance, queue>>.
RelaxFrom(wave, stateV, adj, k) ==
  IF k > Len(adj) THEN wave
  ELSE LET edge == adj[k]
           w == edge.target
           newReducedDist == stateV[1] + AdjustEdgeWeight(stateV[2], edge)
           best == wave[1]
       IN IF stateV[2] = w
          THEN RelaxFrom(wave, stateV, adj, k + 1)
          ELSE IF w \in DOMAIN best /\ newReducedDist >= best[w]
               THEN RelaxFrom(wave, stateV, adj, k + 1)
               ELSE RelaxFrom(<<MapPut(best, w, newReducedDist),
                                wave[2] \cup {<<newReducedDist, w>>}>>,
                              stateV, adj, k + 1)

\* A plausible slip of the bookkeeping: the weight is stored under
\* weights[exit][enter].
RecordExitsSwapped(ws, enter, exitList, dm, k) ==
  LET found == {x \in Range(exitList) : x \in DOMAIN dm}
  IN [e \in DOMAIN ws \cup found |->
        IF e \in found
        THEN MapPut(IF e \in DOMAIN ws THEN ws[e] ELSE <<>>, enter, dm[e])
        ELSE ws[e]]

RECURSIVE RecordExits(_, _, _, _, _)
\* The loop of FillWeights over the exits exitList[k], ...: an exit found in
\* distanceMap gets weights[enter][exit].
RecordExits(ws, enter, exitList, dm, k) ==
  IF k > Len(exitList) THEN ws
  ELSE LET exit == exitList[k]
       IN IF exit \in DOMAIN dm
          THEN RecordExits(
                 MapPut(ws, enter,
                        MapPut(IF enter \in DOMAIN ws THEN ws[enter] ELSE <<>>,
                               exit, dm[exit])),
                 enter, exitList, dm, k + 1)
          ELSE RecordExits(ws, enter, exitList, dm, k + 1)

\* The closure handed to connector.FillWeights.
WeightLookup(ws, enter, exit) ==
  IF enter \notin DOMAIN ws THEN kNoRoute
  ELSE IF exit \notin DOMAIN ws[enter] THEN kNoRoute
       ELSE ws[enter][exit]

\* CrossMwmConnector::FillWeights(calcWeight): the table gets
\* calcWeight(enter, exit) for every enter and every exit.
ConnectorFillWeights(enterList, exitList, calcWeight(_, _)) ==
  [ix \in (DOMAIN enterList) \X (DOMAIN exitList) |->
     calcWeight(enterList[ix[1]], exitList[ix[2]])]

DistinctSeqs(S, n) ==
  {q \in SeqsUpTo(S, n) : \A a, b \in DOMAIN q : a # b => q[a] # q[b]}

\* The enter lists: up to renaming of the segments, the first enter is
\* segment 0 and the second one segment 1.
EnterLists == {SubSeq(<<0, 1>>, 1, n) : n \in 0..MaxEnters}

ExitLists == DistinctSeqs(Segs, MaxExits)

LeapInit ==
  /\ graphW \in Graphs
  /\ enters \in EnterLists
  /\ exits \in ExitLists
  /\ leapPc = "loop"
  /\ enterIdx = 0
  /\ distanceMap = <<>>
  /\ queue = {}
  /\ weights = <<>>
  /\ connWeights = <<>>

LeapIdle ==
  /\ graphW = [p \in Segs \X Segs |-> NoEdge]
  /\ enters = <<>>
  /\ exits = <<>>
  /\ leapPc = "idle"
  /\ enterIdx = 0
  /\ distanceMap = <<>>
  /\ queue = {}
  /\ weights = <<>>
  /\ connWeights = <<>>

\* A plausible slip of the wave's start: the distances the map holds from the
\* wave before are kept.
LeapStartWaveKeepingDistances ==
  /\ leapPc = "loop"
  /\ enterIdx < Len(enters)
  /\ LET enter == enters[enterIdx + 1]
     IN /\ distanceMap' = MapPut(distanceMap, enter, 0)
        /\ queue' = {<<0, enter>>}
  /\ leapPc' = "wave"
  /\ UNCHANGED <<graphW, enters, exits, enterIdx, weights, connWeights>>
  /\ UNCHANGED <<scanVars, procVars, roadVars, buildVars, renderVars>>

\* An iteration of the loop over the enters begins: PropagateWave is called
\* and starts from an emptied distance map.
LeapStartWave ==
  /\ leapPc = "loop"
  /\ enterIdx < Len(enters)
  /\ LET enter == enters[enterIdx + 1]
     IN /\ distanceMap' = MapPut(<<>>, enter, 0)
        /\ queue' = {<<0, enter>>}
  /\ leapPc' = "wave"
  /\ UNCHANGED <<graphW, enters, exits, enterIdx, weights, connWeights>>
  /\ UNCHANGED <<scanVars, procVars, roadVars, buildVars, renderVars>>

\* One iteration of the wave's loop: the top of the queue is taken.
LeapWaveStep ==
  /\ leapPc = "wave"
  /\ queue # {}
  /\ LET stateV == QueueTop(queue)
         rest == queue \ {stateV}
     IN IF stateV[1] > distanceMap[stateV[2]]
        THEN /\ queue' = rest
             /\ UNCHANGED distanceMap
        ELSE IF ShouldStop(stateV[2])
             THEN /\ queue' = {}
                  /\ UNCHANGED distanceMap
             ELSE LET wave == RelaxFrom(<<distanceMap, rest>>, stateV,
                                        GetOutgoingEdgesList(graphW, stateV[2]), 1)
                  IN /\ distanceMap' = wave[1]
                     /\ queue' = wave[2]
  /\ UNCHANGED <<graphW, enters, exits, leapPc, enterIdx, weights, connWeights>>
  /\ UNCHANGED <<scanVars, procVars, roadVars, buildVars, renderVars>>

\* The wave has returned: the exits it reached are recorded.
LeapWaveEnd ==
  /\ leapPc = "wave"
  /\ queue = {}
  /\ weights' = RecordExits(weights, enters[enterIdx + 1], exits, distanceMap, 1)
  /\ enterIdx' = enterIdx + 1
  /\ leapPc' = "loop"
  /\ UNCHANGED <<graphW, enters, exits, distanceMap, queue, connWeights>>
  /\ UNCHANGED <<scanVars, procVars, roadVars, buildVars, renderVars>>

\* connector.FillWeights(lookup) after the last enter.
LeapFillWeights ==
  /\ leapPc = "loop"
  /\ ~(enterIdx < Len(enters))
  /\ LET lookup(enter, exit) == WeightLookup(weights, enter, exit)
     IN connWeights' = ConnectorFillWeights(enters, exits, lookup)
  /\ leapPc' = "done"
  /\ UNCHANGED <<graphW, enters, exits, enterIdx, distanceMap, queue, weights>>
  /\ UNCHANGED <<scanVars, procVars, roadVars, buildVars, renderVars>>

LeapNext == LeapStartWave \/ LeapWaveStep \/ LeapWaveEnd \/ LeapFillWeights

\* The map weights of FillWeights when the waves have reached the (enter,
\* exit) pairs of the set reached, each at the distance MaxEdgeWeight.
WeightsOfReached(reached) ==
  [e \in {p[1] : p \in reached} |->
     [x \in {p[2] : p \in {q \in reached : q[1] = e}} |-> MaxEdgeWeight]]

\* FillWeights(path, mwmFile, country, connector) as a whole: the waves over
\* the graph read from the mwm file leave the map ws, and
\* connector.FillWeights fills the table of the connector from it.
FillWeightsOf(connector, ws) ==
  LET lookup(enter, exit) == WeightLookup(ws, enter, exit)
  IN [connector EXCEPT
        !.weights = ConnectorFillWeights(connector.enters, connector.exits, lookup)]

\* A plausible slip of BuildCrossMwmSection: FillWeights is called in the
\* loop over all connectors.
LeapVehicleTypesAll == VehicleTypes

\* The vehicle types whose connector BuildCrossMwmSection hands to
\* FillWeights: connectors[static_cast<size_t>(VehicleType::Car)].
LeapVehicleTypes == {Car}

\* BuildCrossMwmSection after CalcCrossMwmTransitions has returned: the call
\* of FillWeights.  What the waves reach depends on the graph of the tile.
SectionFillWeights ==
  /\ scanPc = "done"
  /\ leapPc = "idle"
  /\ \E reached \in SUBSET (Range(connectors[Car].enters) \X Range(connectors[Car].exits)) :
       connectors' = [v \in VehicleTypes |->
                        IF v \in LeapVehicleTypes
                        THEN FillWeightsOf(connectors[v], WeightsOfReached(reached))
                        ELSE connectors[v]]
  /\ leapPc' = "done"
  /\ UNCHANGED <<borders, scanPc, scanFeatureId, scanF, scanI, prevPointIn, transitions>>
  /\ UNCHANGED <<graphW, enters, exits, enterIdx, distanceMap, queue, weights, connWeights>>
  /\ UNCHANGED <<procVars, roadVars, buildVars, renderVars>>

(***************************************************************************)
(* IRoadGraph: junctions, edges, the loaders of the real edges at a cross  *)
(* and the fake-edge overlay.                                              *)
(***************************************************************************)
\* kPointsEqualEpsilon, in the unit of the coordinates.
kPointsEqualEpsilon == 2

kDefaultAltitudeMeters == 0

Abs(a) == IF a < 0 THEN -a ELSE a

\* my::AlmostEqualAbs on points: both coordinates differ by less than eps.
PointsAlmostEqualAbs(p, q, eps) ==
  Abs(p[1] - q[1]) < eps /\ Abs(p[2] - q[2]) < eps

Junction(point, altitude) == [point |-> point, altitude |-> altitude]

\* Junction::operator==
JunctionEq(l, r) == l.point = r.point

\* m2::PointD::operator<: by x, then by y.
PointLess(p, q) == p[1] < q[1] \/ (p[1] = q[1] /\ p[2] < q[2])

\* A plausible slip of the ordering: the altitude breaks the tie of the
\* points.
JunctionLessWithAltitude(l, r) ==
  PointLess(l.point, r.point) \/ (l.point = r.point /\ l.altitude < r.altitude)

\* Junction::operator<
JunctionLess(l, r) == PointLess(l.point, r.point)

\* The keys of a map<Junction, TEdgeVector> that the map takes for the
\* junction: neither is less than the other.
KeysAt(m, junction) ==
  {k \in DOMAIN m : ~JunctionLess(k, junction) /\ ~JunctionLess(junction, k)}

\* m[junction] = value of a map<Junction, TEdgeVector>: the entry of the key
\* the map takes for the junction, a new entry when there is none.
JunctionMapPut(m, junction, value) ==
  IF KeysAt(m, junction) = {}
  THEN [k \in DOMAIN m \cup {junction} |-> IF k = junction THEN value ELSE m[k]]
  ELSE LET key == CHOOSE k \in KeysAt(m, junction) : TRUE
       IN [m EXCEPT ![key] = value]

\* FeatureID(): the invalid feature id.
InvalidFeatureId == -1

FeatureIdIsValid(featureId) == featureId # InvalidFeatureId

\* Edge::IsFake
IsFake(e) == ~FeatureIdIsValid(e.featureId)

\* Edge::Edge(featureId, forward, segId, startJunction, endJunction)
Edge(featureId, forward, segId, startJunction, endJunction) ==
  [featureId |-> featureId, forward |-> forward,
   partOfReal |-> FeatureIdIsValid(featureId), segId |-> segId,
   startJunction |-> startJunction, endJunction |-> endJunction]

\* Edge::MakeFake
MakeFake(startJunction, endJunction, partOfReal) ==
  [Edge(InvalidFeatureId, TRUE, 0, startJunction, endJunction)
     EXCEPT !.partOfReal = partOfReal]

\* Edge::operator==
EdgeEq(l, r) ==
  /\ l.featureId = r.featureId
  /\ l.forward = r.forward
  /\ l.partOfReal = r.partOfReal
  /\ l.segId = r.segId
  /\ JunctionEq(l.startJunction, r.startJunction)
  /\ JunctionEq(l.endJunction, r.endJunction)

Modes == {"ObeyOnewayTag", "IgnoreOnewayTag"}

\* The points of the roads, and the points a junction may be asked at.
OnRoadPoints == {<<x, 0>> : x \in 0..MaxRoadX}
JunctionPoints == OnRoadPoints \cup {<<x, OffRoadY>> : x \in 0..MaxRoadX}
Altitudes == 0..MaxAltitude

\* IRoadGraph::RoadInfo: at least one segment, and no segment of length zero
\* (consecutive points may still be equal up to epsilon).
RoadInfos ==
  {[m_junctions |-> [k \in DOMAIN pts |-> Junction(pts[k], kDefaultAltitudeMeters)],
    m_bidirectional |-> b] :
     pts \in {q \in SeqsUpTo(OnRoadPoints, MaxRoadPoints) :
                /\ Len(q) >= 2
                /\ \A k \in 1..(Len(q) - 1) : q[k] # q[k + 1]},
     b \in BOOLEAN}

RECURSIVE ForEachEdgeTailOffByOne(_, _, _)
\* A plausible slip of ForEachEdge: the tail case reports segment i instead
\* of segment i - 1.
ForEachEdgeTailOffByOne(cross, roadInfo, i) ==
  LET size == Len(roadInfo.m_junctions)
      at(k) == roadInfo.m_junctions[k + 1]
  IN IF ~(i < size) THEN <<>>
     ELSE IF ~PointsAlmostEqualAbs(cross.point, at(i).point, kPointsEqualEpsilon)
          THEN ForEachEdgeTailOffByOne(cross, roadInfo, i + 1)
          ELSE (IF i + 1 < size
                THEN <<[segId |-> i, junction |-> at(i + 1), forward |-> TRUE]>>
                ELSE <<>>)
               \o (IF i > 0
                   THEN <<[segId |-> i, junction |-> at(i - 1), forward |-> FALSE]>>
                   ELSE <<>>)
               \o ForEachEdgeTailOffByOne(cross, roadInfo, i + 1)

RECURSIVE ForEachEdgeFirstMatchOnly(_, _, _)
\* A plausible slip of ForEachEdge: the loop is left after the first vertex
\* equal to the cross.
ForEachEdgeFirstMatchOnly(cross, roadInfo, i) ==
  LET size == Len(roadInfo.m_junctions)
      at(k) == roadInfo.m_junctions[k + 1]
  IN IF ~(i < size) THEN <<>>
     ELSE IF ~PointsAlmostEqualAbs(cross.point, at(i).point, kPointsEqualEpsilon)
          THEN ForEachEdgeFirstMatchOnly(cross, roadInfo, i + 1)
          ELSE (IF i + 1 < size
                THEN <<[segId |-> i, junction |-> at(i + 1), forward |-> TRUE]>>
                ELSE <<>>)
               \o (IF i > 0
                   THEN <<[segId |-> i - 1, junction |-> at(i - 1), forward |-> FALSE]>>
                   ELSE <<>>)

RECURSIVE ForEachEdge(_, _, _)
\* ICrossEdgesLoader::ForEachEdge, from index i on: the calls of fn, in order,
\* each with its arguments (segment, junction, forward).
ForEachEdge(cross, roadInfo, i) ==
  LET size == Len(roadInfo.m_junctions)
      at(k) == roadInfo.m_junctions[k + 1]
  IN IF ~(i < size) THEN <<>>
     ELSE IF ~PointsAlmostEqualAbs(cross.point, at(i).point, kPointsEqualEpsilon)
          THEN ForEachEdge(cross, roadInfo, i + 1)
          ELSE (IF i + 1 < size
                THEN <<[segId |-> i, junction |-> at(i + 1), forward |-> TRUE]>>
                ELSE <<>>)
               \o (IF i > 0
                   THEN <<[segId |-> i - 1, junction |-> at(i - 1), forward |-> FALSE]>>
                   ELSE <<>>)
               \o ForEachEdge(cross, roadInfo, i + 1)

RECURSIVE LoadOutgoingFromAnyDirection(_, _, _, _, _, _)
\* A plausible slip of the outgoing loader: the one-way tag is never looked at.
LoadOutgoingFromAnyDirection(cross, md, featureId, roadInfo, calls, k) ==
  IF k > Len(calls) THEN <<>>
  ELSE LET call == calls[k]
       IN <<Edge(featureId, call.forward, call.segId, cross, call.junction)>>
          \o LoadOutgoingFromAnyDirection(cross, md, featureId, roadInfo, calls, k + 1)

RECURSIVE LoadOutgoingFrom(_, _, _, _, _, _)
\* CrossOutgoingLoader::LoadEdges: the callback over the calls of ForEachEdge.
\* An edge starts at the cross; against a one-way road it is skipped unless
\* the mode ignores the tag.
LoadOutgoingFrom(cross, md, featureId, roadInfo, calls, k) ==
  IF k > Len(calls) THEN <<>>
  ELSE LET call == calls[k]
       IN (IF call.forward \/ roadInfo.m_bidirectional \/ md = "IgnoreOnewayTag"
           THEN <<Edge(featureId, call.forward, call.segId, cross, call.junction)>>
           ELSE <<>>)
          \o LoadOutgoingFrom(cross, md, featureId, roadInfo, calls, k + 1)

CrossOutgoingLoader(cross, md, featureId, roadInfo) ==
  LoadOutgoingFrom(cross, md, featureId, roadInfo, ForEachEdge(cross, roadInfo, 0), 1)

RECURSIVE LoadIngoingFrom(_, _, _, _, _, _)
\* CrossIngoingLoader::LoadEdges: an edge ends at the cross, so it runs
\* against the direction of the call.
LoadIngoingFrom(cross, md, featureId, roadInfo, calls, k) ==
  IF k > Len(calls) THEN <<>>
  ELSE LET call == calls[k]
       IN (IF ~call.forward \/ roadInfo.m_bidirectional \/ md = "IgnoreOnewayTag"
           THEN <<Edge(featureId, ~call.forward, call.segId, call.junction, cross)>>
           ELSE <<>>)
          \o LoadIngoingFrom(cross, md, featureId, roadInfo, calls, k + 1)

CrossIngoingLoader(cross, md, featureId, roadInfo) ==
  LoadIngoingFrom(cross, md, featureId, roadInfo, ForEachEdge(cross, roadInfo, 0), 1)

RECURSIVE ForEachFeatureClosestToCross(_, _, _)
\* ForEachFeatureClosestToCross(cross, edgesLoader), from feature id on: the
\* loader is called for every feature with a vertex equal to the cross.
ForEachFeatureClosestToCross(cross, loader(_, _), featureId) ==
  IF ~(featureId < Len(roads)) THEN <<>>
  ELSE LET roadInfo == roads[featureId + 1]
           close == \E k \in DOMAIN roadInfo.m_junctions :
                      PointsAlmostEqualAbs(cross, roadInfo.m_junctions[k].point,
                                           kPointsEqualEpsilon)
       IN (IF close THEN loader(featureId, roadInfo) ELSE <<>>)
          \o ForEachFeatureClosestToCross(cross, loader, featureId + 1)

\* IRoadGraph::GetRegularOutgoingEdges
GetRegularOutgoingEdges(junction) ==
  LET loader(featureId, roadInfo) ==
        CrossOutgoingLoader(junction, mode, featureId, roadInfo)
  IN ForEachFeatureClosestToCross(junction.point, loader, 0)

\* IRoadGraph::GetRegularIngoingEdges
GetRegularIngoingEdges(junction) ==
  LET loader(featureId, roadInfo) ==
        CrossIngoingLoader(junction, mode, featureId, roadInfo)
  IN ForEachFeatureClosestToCross(junction.point, loader, 0)

\* The edge vector a fake-edge map holds for a junction, none when absent.
FakeEdgesAt(m, junction) ==
  IF KeysAt(m, junction) = {} THEN <<>>
  ELSE m[CHOOSE k \in KeysAt(m, junction) : TRUE]

\* IRoadGraph::GetFakeOutgoingEdges
GetFakeOutgoingEdges(junction) == FakeEdgesAt(m_fakeOutgoingEdges, junction)

\* IRoadGraph::GetFakeIngoingEdges
GetFakeIngoingEdges(junction) == FakeEdgesAt(m_fakeIngoingEdges, junction)

\* A plausible slip of GetOutgoingEdges: the fake edges are left out.
GetOutgoingEdgesRegularOnly(junction) == GetRegularOutgoingEdges(junction)

\* IRoadGraph::GetOutgoingEdges: the fake edges and the regular ones.
GetOutgoingEdges(junction) ==
  GetFakeOutgoingEdges(junction) \o GetRegularOutgoingEdges(junction)

\* IRoadGraph::GetIngoingEdges
GetIngoingEdges(junction) ==
  GetFakeIngoingEdges(junction) \o GetRegularIngoingEdges(junction)

\* The projection of a point onto the segment from a to b of a road (the
\* roads lie on y = 0): the point of the segment nearest to it.
ProjectOnSegment(point, a, b) ==
  LET lo == IF a[1] <= b[1] THEN a[1] ELSE b[1]
      hi == IF a[1] <= b[1] THEN b[1] ELSE a[1]
      x == IF point[1] < lo THEN lo ELSE IF point[1] > hi THEN hi ELSE point[1]
  IN <<x, 0>>

SquaredLength(p, q) ==
  (p[1] - q[1]) * (p[1] - q[1]) + (p[2] - q[2]) * (p[2] - q[2])

RECURSIVE TakeClosest(_, _, _)
\* Up to count candidates in ascending order of squared distance, ties by
\* (feature id, segment index).
TakeClosest(point, cands, count) ==
  IF count = 0 \/ cands = {} THEN <<>>
  ELSE LET key(c) == <<SquaredLength(point, c.projection.point),
                       c.edge.featureId, c.edge.segId>>
           before(k1, k2) ==
             \/ k1[1] < k2[1]
             \/ (k1[1] = k2[1] /\ k1[2] < k2[2])
             \/ (k1[1] = k2[1] /\ k1[2] = k2[2] /\ k1[3] <= k2[3])
           first == CHOOSE c \in cands : \A d \in cands : before(key(c), key(d))
       IN <<<<first.edge, first.projection>>>>
          \o TakeClosest(point, cands \ {first}, count - 1)

\* IRoadGraph::FindClosestEdges(point, count, vicinities)
FindClosestEdges(point, count) ==
  LET cands == {[edge |-> Edge(f, TRUE, seg, roads[f + 1].m_junctions[seg + 1],
                               roads[f + 1].m_junctions[seg + 2]),
                 projection |-> Junction(
                     ProjectOnSegment(point,
                                      roads[f + 1].m_junctions[seg + 1].point,
                                      roads[f + 1].m_junctions[seg + 2].point),
                     kDefaultAltitudeMeters)] :
                  <<f, seg>> \in {fs \in (0..(Len(roads) - 1)) \X (0..(MaxRoadPoints - 1)) :
                                    fs[2] + 1 < Len(roads[fs[1] + 1].m_junctions)}}
  IN TakeClosest(point, cands, count)

\* SplitEdge(ab, p): the two halves of ab at p, none when p is an endpoint.
SplitEdge(ab, p) ==
  LET a == ab.startJunction
      b == ab.endJunction
  IN IF a.point = p.point \/ b.point = p.point THEN <<>>
     ELSE <<MakeFake(a, p, TRUE), MakeFake(p, b, TRUE)>>

\* A plausible slip of AddFakeEdges: the edges joining the junction and the
\* projection are not marked as parts of a real edge.
FakeEdgesOfVicinityNotPartOfReal(junction, ab, p) ==
  SplitEdge(ab, p) \o <<MakeFake(junction, p, FALSE), MakeFake(p, junction, FALSE)>>

\* The fake edges AddFakeEdges makes for one vicinity: the halves of the
\* split real edge and the pair of edges joining the junction and the
\* projection.
FakeEdgesOfVicinity(junction, ab, p) ==
  SplitEdge(ab, p) \o <<MakeFake(junction, p, TRUE), MakeFake(p, junction, TRUE)>>

RECURSIVE InsertFakeEdgesOverwriting(_, _, _)
\* A plausible slip of the insertion: an edge replaces the vector its
\* junction has instead of being appended to it.
InsertFakeEdgesOverwriting(fakes, edges, k) ==
  IF k > Len(edges) THEN fakes
  ELSE LET uv == edges[k]
           ingoing == JunctionMapPut(fakes[1], uv.endJunction, <<uv>>)
           outgoing == JunctionMapPut(fakes[2], uv.startJunction, <<uv>>)
       IN InsertFakeEdgesOverwriting(<<ingoing, outgoing>>, edges, k + 1)

RECURSIVE InsertFakeEdges(_, _, _)
\* Every edge uv is appended to the outgoing edges of its start junction and
\* to the ingoing edges of its end junction; fakes is <<ingoing, outgoing>>.
InsertFakeEdges(fakes, edges, k) ==
  IF k > Len(edges) THEN fakes
  ELSE LET uv == edges[k]
           ingoing == JunctionMapPut(fakes[1], uv.endJunction,
                                     Append(FakeEdgesAt(fakes[1], uv.endJunction), uv))
           outgoing == JunctionMapPut(fakes[2], uv.startJunction,
                                      Append(FakeEdgesAt(fakes[2], uv.startJunction), uv))
       IN InsertFakeEdges(<<ingoing, outgoing>>, edges, k + 1)

RECURSIVE AddFakeEdgesFrom(_, _, _, _)
\* IRoadGraph::AddFakeEdges(junction, vicinities): the loop over the
\* vicinities k, k + 1, ...
AddFakeEdgesFrom(fakes, junction, vicinities, k) ==
  IF k > Len(vicinities) THEN fakes
  ELSE AddFakeEdgesFrom(
         InsertFakeEdges(fakes,
                         FakeEdgesOfVicinity(junction, vicinities[k][1],
                                             vicinities[k][2]), 1),
         junction, vicinities, k + 1)

Junctions == [point : JunctionPoints, altitude : Altitudes]

NoJunction == Junction(<<0, 0>>, kDefaultAltitudeMeters)

RoadInit(maxRoads) ==
  /\ roads \in SeqsUpTo(RoadInfos, maxRoads)
  /\ mode \in Modes
  /\ m_fakeIngoingEdges = <<>>
  /\ m_fakeOutgoingEdges = <<>>
  /\ addFakeCalls = 0
  /\ lastOp = "IRoadGraph"
  /\ lastJunction = NoJunction
  /\ lastEdges = <<>>

RoadIdle ==
  /\ roads = <<>>
  /\ mode = "ObeyOnewayTag"
  /\ m_fakeIngoingEdges = <<>>
  /\ m_fakeOutgoingEdges = <<>>
  /\ addFakeCalls = 0
  /\ lastOp = "idle"
  /\ lastJunction = NoJunction
  /\ lastEdges = <<>>

\* AddFakeEdges(junction, vicinities), the vicinities being those of the
\* closest-edge search at the junction, which is asked for MaxVicinities
\* edges.
AddFakeEdges ==
  /\ addFakeCalls < MaxAddFakeCalls
  /\ \E junction \in Junctions :
       LET vicinities == FindClosestEdges(junction.point, MaxVicinities)
           fakes == AddFakeEdgesFrom(<<m_fakeIngoingEdges, m_fakeOutgoingEdges>>,
                                     junction, vicinities, 1)
       IN /\ m_fakeIngoingEdges' = fakes[1]
          /\ m_fakeOutgoingEdges' = fakes[2]
          /\ lastJunction' = junction
          /\ lastEdges' = vicinities
  /\ addFakeCalls' = addFakeCalls + 1
  /\ lastOp' = "AddFakeEdges"
  /\ UNCHANGED <<roads, mode>>
  /\ UNCHANGED <<scanVars, procVars, leapVars, buildVars, renderVars>>

\* A plausible slip of ResetFakes: only the outgoing map is cleared.
ResetFakesOutgoingOnly ==
  /\ m_fakeOutgoingEdges' = <<>>
  /\ lastOp' = "ResetFakes"
  /\ lastJunction' = NoJunction
  /\ lastEdges' = <<>>
  /\ UNCHANGED <<roads, mode, addFakeCalls, m_fakeIngoingEdges>>
  /\ UNCHANGED <<scanVars, procVars, leapVars, buildVars, renderVars>>

\* ResetFakes()
ResetFakes ==
  /\ m_fakeOutgoingEdges' = <<>>
  /\ m_fakeIngoingEdges' = <<>>
  /\ lastOp' = "ResetFakes"
  /\ lastJunction' = NoJunction
  /\ lastEdges' = <<>>
  /\ UNCHANGED <<roads, mode, addFakeCalls>>
  /\ UNCHANGED <<scanVars, procVars, leapVars, buildVars, renderVars>>

\* A const query of the graph: op names it, result(junction) is what it
\* returns.  The graph is left as it is.
Query(op, result(_)) ==
  /\ \E junction \in Junctions :
       /\ lastJunction' = junction
       /\ lastEdges' = result(junction)
  /\ lastOp' = op
  /\ UNCHANGED <<roads, mode, m_fakeIngoingEdges, m_fakeOutgoingEdges, addFakeCalls>>
  /\ UNCHANGED <<scanVars, procVars, leapVars, buildVars, renderVars>>

QueryOutgoingEdges == Query("GetOutgoingEdges", GetOutgoingEdges)

QueryIngoingEdges == Query("GetIngoingEdges", GetIngoingEdges)

\* A plausible slip of GetReverseEdge: the end junctions are swapped and the
\* direction is left as it was.
GetReverseEdgeKeepsDirection(e) ==
  [e EXCEPT !.startJunction = e.endJunction, !.endJunction = e.startJunction]

\* Edge::GetReverseEdge
GetReverseEdge(e) ==
  [e EXCEPT !.forward = ~e.forward,
            !.startJunction = e.endJunction,
            !.endJunction = e.startJunction]

\* The edges the constructors make: those of a segment of a feature and the
\* fake ones.
Edges ==
  {Edge(f, forward, segId, a, b) :
     f \in 0..(MaxRoads - 1), forward \in BOOLEAN,
     segId \in 0..(MaxRoadPoints - 2), a \in Junctions, b \in Junctions}
  \cup {MakeFake(a, b, partOfReal) :
           a \in Junctions, b \in Junctions, partOfReal \in BOOLEAN}

\* An edge on its own, not yet reversed.
EdgeInit ==
  /\ roads = <<>>
  /\ mode = "ObeyOnewayTag"
  /\ m_fakeIngoingEdges = <<>>
  /\ m_fakeOutgoingEdges = <<>>
  /\ addFakeCalls = 0
  /\ lastOp = "Edge"
  /\ lastJunction = NoJunction
  /\ \E e \in Edges : lastEdges = <<e>>

\* GetReverseEdge() of the edge made last; the edges are kept in the order
\* they were made.
ReverseEdge ==
  /\ lastOp \in {"Edge", "GetReverseEdge"}
  /\ Len(lastEdges) <= MaxReversals
  /\ lastEdges' = Append(lastEdges, GetReverseEdge(lastEdges[Len(lastEdges)]))
  /\ lastOp' = "GetReverseEdge"
  /\ UNCHANGED <<roads, mode, m_fakeIngoingEdges, m_fakeOutgoingEdges,
                 addFakeCalls, lastJunction>>
  /\ UNCHANGED <<scanVars, procVars, leapVars, buildVars, renderVars>>

EdgeNext == ReverseEdge

\* The const member functions of IRoadGraph.
ConstOps ==
  {"GetOutgoingEdges", "GetIngoingEdges", "GetSpeedKMPH", "FindClosestEdges"}

\* A const member function is called while fake edges are in place: the
\* call is noted, the graph is left as it is.
ConstCall ==
  /\ \E op \in ConstOps : lastOp' = op
  /\ UNCHANGED <<roads, mode, m_fakeIngoingEdges, m_fakeOutgoingEdges,
                 addFakeCalls, lastJunction, lastEdges>>
  /\ UNCHANGED <<scanVars, procVars, leapVars, buildVars, renderVars>>

RoadNext == QueryOutgoingEdges \/ QueryIngoingEdges

\* A loader made for the cross calls ForEachEdge(roadInfo, fn) with the road
\* of the graph; the calls of fn are kept in their order.
CallForEachEdge ==
  /\ roads # <<>>
  /\ \E cross \in Junctions :
       /\ lastJunction' = cross
       /\ lastEdges' = ForEachEdge(cross, roads[Len(roads)], 0)
  /\ lastOp' = "ForEachEdge"
  /\ UNCHANGED <<roads, mode, m_fakeIngoingEdges, m_fakeOutgoingEdges, addFakeCalls>>
  /\ UNCHANGED <<scanVars, procVars, leapVars, buildVars, renderVars>>

CrossNext == CallForEachEdge

FakesNext == AddFakeEdges \/ ResetFakes \/ ConstCall

(***************************************************************************)
(* The two entry points: BuildRoutingIndex and BuildCrossMwmSection.       *)
(***************************************************************************)
Builders == {"BuildRoutingIndex", "BuildCrossMwmSection"}

\* The files an entry point opens or reads.
Files == {"borders", "dat", "archive"}

BuildInit ==
  /\ builder \in Builders
  /\ availableModels \in SUBSET VehicleTypes
  /\ buildPc = "start"
  /\ ioDone = {}
  /\ buildResult = "running"
  /\ errorLogged = FALSE
  /\ sectionTotal \in 1..MaxSectionBytes
  /\ sectionWritten = 0
  /\ sectionCommitted = FALSE

BuildIdle ==
  /\ builder = "idle"
  /\ availableModels = VehicleTypes
  /\ buildPc = "idle"
  /\ ioDone = {}
  /\ buildResult = "idle"
  /\ errorLogged = FALSE
  /\ sectionTotal = 0
  /\ sectionWritten = 0
  /\ sectionCommitted = FALSE

\* VehicleMaskBuilder::VehicleMaskBuilder: the three CHECKs pass.
ModelsChecked == availableModels = VehicleTypes

\* A CHECK fails: the process is aborted, nothing is caught.
CheckFails ==
  /\ buildPc' = "done"
  /\ buildResult' = "aborted"
  /\ UNCHANGED <<errorLogged, sectionCommitted>>

\* The catch clause of BuildRoutingIndex: LOG(LERROR, ...) and return false.
\* The locals of the try block are destroyed on the way; the container, when
\* it was opened, is closed by its destructor as it is on the way out of a
\* successful run, for the try block has no other call that closes it.
CatchRootException(containerOpened) ==
  /\ buildPc' = "done"
  /\ buildResult' = "false"
  /\ errorLogged' = TRUE
  /\ sectionCommitted' = containerOpened

\* Processor processor(country)
ConstructProcessor ==
  /\ builder = "BuildRoutingIndex"
  /\ buildPc = "start"
  /\ IF ModelsChecked
     THEN buildPc' = "features" /\ UNCHANGED <<buildResult, errorLogged, sectionCommitted>>
     ELSE CheckFails
  /\ UNCHANGED <<builder, availableModels, ioDone, sectionTotal, sectionWritten>>
  /\ UNCHANGED <<scanVars, procVars, leapVars, roadVars, renderVars>>

\* processor.ProcessAllFeatures(filename): the feature file is read.
ProcessAllFeatures ==
  /\ builder = "BuildRoutingIndex"
  /\ buildPc = "features"
  /\ ioDone' = ioDone \cup {"dat"}
  /\ \E raised \in BOOLEAN :
       IF raised
       THEN CatchRootException(FALSE)
       ELSE buildPc' = "graph" /\ UNCHANGED <<buildResult, errorLogged, sectionCommitted>>
  /\ UNCHANGED <<builder, availableModels, sectionTotal, sectionWritten>>
  /\ UNCHANGED <<scanVars, procVars, leapVars, roadVars, renderVars>>

\* IndexGraph graph; processor.BuildGraph(graph)
BuildIndexGraph ==
  /\ builder = "BuildRoutingIndex"
  /\ buildPc = "graph"
  /\ \E raised \in BOOLEAN :
       IF raised
       THEN CatchRootException(FALSE)
       ELSE buildPc' = "container" /\ UNCHANGED <<buildResult, errorLogged, sectionCommitted>>
  /\ UNCHANGED <<builder, availableModels, ioDone, sectionTotal, sectionWritten>>
  /\ UNCHANGED <<scanVars, procVars, leapVars, roadVars, renderVars>>

\* FilesContainerW cont(filename, OP_WRITE_EXISTING) and
\* cont.GetWriter(ROUTING_FILE_TAG).  A constructor that raises leaves no
\* container behind.
OpenRoutingSection ==
  /\ builder = "BuildRoutingIndex"
  /\ buildPc = "container"
  /\ ioDone' = ioDone \cup {"archive"}
  /\ \E raised \in BOOLEAN :
       IF raised
       THEN CatchRootException(FALSE)
       ELSE buildPc' = "serialize" /\ UNCHANGED <<buildResult, errorLogged, sectionCommitted>>
  /\ UNCHANGED <<builder, availableModels, sectionTotal, sectionWritten>>
  /\ UNCHANGED <<scanVars, procVars, leapVars, roadVars, renderVars>>

\* IndexGraphSerializer::Serialize(graph, masks, writer): it writes the
\* whole section, or raises after a part of it.
SerializeRoutingSection ==
  /\ builder = "BuildRoutingIndex"
  /\ buildPc = "serialize"
  /\ \E written \in 0..sectionTotal :
       /\ sectionWritten' = written
       /\ IF written < sectionTotal
          THEN CatchRootException(TRUE)
          ELSE buildPc' = "return" /\ UNCHANGED <<buildResult, errorLogged, sectionCommitted>>
  /\ UNCHANGED <<builder, availableModels, ioDone, sectionTotal>>
  /\ UNCHANGED <<scanVars, procVars, leapVars, roadVars, renderVars>>

\* LOG(LINFO, ...); return true.  The writer and the container are
\* destroyed, which closes the container.
ReturnTrue ==
  /\ builder = "BuildRoutingIndex"
  /\ buildPc = "return"
  /\ buildPc' = "done"
  /\ buildResult' = "true"
  /\ sectionCommitted' = TRUE
  /\ UNCHANGED <<builder, availableModels, ioDone, errorLogged, sectionTotal,
                 sectionWritten>>
  /\ UNCHANGED <<scanVars, procVars, leapVars, roadVars, renderVars>>

\* An exception leaves BuildCrossMwmSection, which catches nothing: the
\* function is over and the exception is with its caller.  The container of
\* the section is declared after the calls that read the inputs, so there
\* is none to close.
Propagates ==
  /\ buildPc' = "done"
  /\ buildResult' = "raised"
  /\ UNCHANGED <<errorLogged, sectionCommitted>>

\* CalcCrossMwmTransitions: osm::LoadBorders(polyFile, borders)
LoadBorders ==
  /\ builder = "BuildCrossMwmSection"
  /\ buildPc = "start"
  /\ ioDone' = ioDone \cup {"borders"}
  /\ \E raised \in BOOLEAN :
       IF raised
       THEN Propagates
       ELSE buildPc' = "maskMaker" /\ UNCHANGED <<buildResult, errorLogged, sectionCommitted>>
  /\ UNCHANGED <<builder, availableModels, sectionTotal, sectionWritten>>
  /\ UNCHANGED <<scanVars, procVars, leapVars, roadVars, renderVars>>

\* CalcCrossMwmTransitions: VehicleMaskBuilder const maskMaker(country)
ConstructMaskMaker ==
  /\ builder = "BuildCrossMwmSection"
  /\ buildPc = "maskMaker"
  /\ IF ModelsChecked
     THEN buildPc' = "transitions" /\ UNCHANGED <<buildResult, errorLogged, sectionCommitted>>
     ELSE CheckFails
  /\ UNCHANGED <<builder, availableModels, ioDone, sectionTotal, sectionWritten>>
  /\ UNCHANGED <<scanVars, procVars, leapVars, roadVars, renderVars>>

\* CalcCrossMwmTransitions: feature::ForEachFromDat(mwmFile, ...)
ReadTransitions ==
  /\ builder = "BuildCrossMwmSection"
  /\ buildPc = "transitions"
  /\ ioDone' = ioDone \cup {"dat"}
  /\ \E raised \in BOOLEAN :
       IF raised
       THEN Propagates
       ELSE buildPc' = "weights" /\ UNCHANGED <<buildResult, errorLogged, sectionCommitted>>
  /\ UNCHANGED <<builder, availableModels, sectionTotal, sectionWritten>>
  /\ UNCHANGED <<scanVars, procVars, leapVars, roadVars, renderVars>>

\* A plausible slip of BuildCrossMwmSection: the container and the writer of
\* the section are made before FillWeights is called, so that an exception
\* of FillWeights closes a container that holds an empty section.
FillCarWeightsWithOpenSection ==
  /\ builder = "BuildCrossMwmSection"
  /\ buildPc = "weights"
  /\ ioDone' = ioDone \cup {"archive"}
  /\ \E raised \in BOOLEAN :
       IF raised
       THEN /\ buildPc' = "done"
            /\ buildResult' = "raised"
            /\ sectionCommitted' = TRUE
            /\ UNCHANGED errorLogged
       ELSE buildPc' = "serialize" /\ UNCHANGED <<buildResult, errorLogged, sectionCommitted>>
  /\ UNCHANGED <<builder, availableModels, sectionTotal, sectionWritten>>
  /\ UNCHANGED <<scanVars, procVars, leapVars, roadVars, renderVars>>

\* BuildCrossMwmSection: FillWeights(path, mwmFile, country, connectors[Car]),
\* which loads the index graph from the mwm file.
FillCarWeights ==
  /\ builder = "BuildCrossMwmSection"
  /\ buildPc = "weights"
  /\ ioDone' = ioDone \cup {"archive"}
  /\ \E raised \in BOOLEAN :
       IF raised
       THEN Propagates
       ELSE buildPc' = "serialize" /\ UNCHANGED <<buildResult, errorLogged, sectionCommitted>>
  /\ UNCHANGED <<builder, availableModels, sectionTotal, sectionWritten>>
  /\ UNCHANGED <<scanVars, procVars, leapVars, roadVars, renderVars>>

\* BuildCrossMwmSection: the cross-mwm section is serialised and the
\* function returns; nothing is caught here.
SerializeCrossMwmSection ==
  /\ builder = "BuildCrossMwmSection"
  /\ buildPc = "serialize"
  /\ \E written \in 0..sectionTotal :
       /\ sectionWritten' = written
       /\ buildResult' = IF written < sectionTotal THEN "raised" ELSE "returned"
  /\ buildPc' = "done"
  /\ sectionCommitted' = TRUE
  /\ UNCHANGED <<builder, availableModels, ioDone, errorLogged, sectionTotal>>
  /\ UNCHANGED <<scanVars, procVars, leapVars, roadVars, renderVars>>

BuildNext ==
  \/ ConstructProcessor
  \/ ProcessAllFeatures
  \/ BuildIndexGraph
  \/ OpenRoutingSection
  \/ SerializeRoutingSection
  \/ ReturnTrue
  \/ LoadBorders
  \/ ConstructMaskMaker
  \/ ReadTransitions
  \/ FillCarWeights
  \/ SerializeCrossMwmSection

(***************************************************************************)
(* BackendRenderer: the messages of the route, from the backend thread to  *)
(* the render thread (drape_frontend/backend_renderer.cpp).                *)
(***************************************************************************)
\* The messages of AcceptMessage the model follows.
BackendMessageTypes == {"AddRoute", "RemoveRoute", "InvalidateTextures"}

\* The ids of the user mark layers.
UserMarkLayers == 0..MaxLayerId

\* ThreadsCommutator::PostMessage to a thread whose queue is q: a message of
\* Normal priority waits behind the messages of the queue, one of High
\* priority goes in front of them.
PostMessage(q, message, priority) ==
  IF priority = "High"
  THEN <<[message EXCEPT !.priority = priority]>> \o q
  ELSE Append(q, [message EXCEPT !.priority = priority])

\* A message the backend posts: its type, the recache id of its route (0
\* when it has none) and its number among the messages the backend posts.
RenderMessage(type, recacheId) ==
  [type |-> type, recacheId |-> recacheId, stamp |-> postedCount + 1,
   priority |-> "Normal"]

\* A plausible slip of the RemoveRoute case: the message is sent on with
\* High priority.
RemoveRoutePriorityHigh == "High"

\* The priority the RemoveRoute case sends the message on with.
RemoveRoutePriority == "Normal"

RenderInit ==
  /\ backendQueue = <<>>
  /\ renderQueue = <<>>
  /\ m_routeCache = {}
  /\ postedCount = 0
  /\ apiCount = 0
  /\ processed = <<>>
  /\ providerDirty = [layerId \in UserMarkLayers |-> FALSE]
  /\ userMarkCalls = <<>>

RenderIdle ==
  /\ backendQueue = <<>>
  /\ renderQueue = <<>>
  /\ m_routeCache = {}
  /\ postedCount = 0
  /\ apiCount = 0
  /\ processed = <<>>
  /\ providerDirty = [layerId \in UserMarkLayers |-> FALSE]
  /\ userMarkCalls = <<>>

\* A thread of the application posts a message to the backend renderer.
PostToBackend ==
  /\ apiCount < MaxApiMessages
  /\ \E type \in BackendMessageTypes :
       backendQueue' = Append(backendQueue, [type |-> type, recacheId |-> apiCount + 1])
  /\ apiCount' = apiCount + 1
  /\ UNCHANGED <<renderQueue, m_routeCache, postedCount, processed,
                 providerDirty, userMarkCalls>>
  /\ UNCHANGED <<scanVars, procVars, leapVars, roadVars, buildVars>>

\* A thread of the application has changed, or left alone, the marks of a
\* layer and posts an UpdateUserMarkLayerMessage for it to the backend.
PostUpdateUserMarkLayer ==
  /\ apiCount < MaxApiMessages
  /\ \E layerId \in UserMarkLayers, dirty \in BOOLEAN :
       /\ providerDirty' = [providerDirty EXCEPT ![layerId] = dirty]
       /\ backendQueue' = Append(backendQueue,
                                 [type |-> "UpdateUserMarkLayer", layerId |-> layerId])
  /\ apiCount' = apiCount + 1
  /\ UNCHANGED <<renderQueue, m_routeCache, postedCount, processed, userMarkCalls>>
  /\ UNCHANGED <<scanVars, procVars, leapVars, roadVars, buildVars>>

\* case Message::AddRoute: m_routeBuilder->Build(...).  The builder caches
\* the route and calls the flush callback of the constructor, which posts a
\* FlushRouteMessage to the render thread with Normal priority.
AcceptAddRoute(msg) ==
  /\ m_routeCache' = m_routeCache \cup {msg.recacheId}
  /\ renderQueue' = PostMessage(renderQueue, RenderMessage("FlushRoute", msg.recacheId),
                                "Normal")
  /\ postedCount' = postedCount + 1
  /\ UNCHANGED userMarkCalls

\* case Message::RemoveRoute: ClearRouteCache() and the message is sent on to
\* the render thread.
AcceptRemoveRoute(msg) ==
  /\ m_routeCache' = {}
  /\ renderQueue' = PostMessage(renderQueue, RenderMessage("RemoveRoute", 0),
                                RemoveRoutePriority)
  /\ postedCount' = postedCount + 1
  /\ UNCHANGED userMarkCalls

\* case Message::InvalidateTextures: RecacheMapShapes() posts a
\* MapShapesMessage with High priority.
AcceptInvalidateTextures(msg) ==
  /\ renderQueue' = PostMessage(renderQueue, RenderMessage("MapShapes", 0), "High")
  /\ postedCount' = postedCount + 1
  /\ UNCHANGED <<m_routeCache, userMarkCalls>>

\* A message of a user mark layer the backend posts: its type, its layer and
\* its number among the messages the backend posts.
UserMarkMessage(type, layerId, stamp) ==
  [type |-> type, layerId |-> layerId, stamp |-> stamp, priority |-> "Normal"]

\* A call made on an UpdateUserMarkLayerMessage of a layer, with the number
\* of messages the backend had posted when it was made.
ProcessCall(call, layerId, posted) ==
  [call |-> call, layerId |-> layerId, posted |-> posted]

\* A plausible slip of the UpdateUserMarkLayer case: EndProcess is called in
\* the branch of the dirty provider only.
AcceptUpdateUserMarkLayerEndsWhenDirty(msg) ==
  LET layerId == msg.layerId
      started == Append(userMarkCalls,
                        ProcessCall("StartProcess", layerId, postedCount))
  IN IF providerDirty[layerId]
     THEN LET cleared == PostMessage(renderQueue,
                           UserMarkMessage("ClearUserMarkLayer", layerId, postedCount + 1),
                           "Normal")
              flushed == PostMessage(cleared,
                           UserMarkMessage("FlushUserMarks", layerId, postedCount + 2),
                           "Normal")
          IN /\ renderQueue' = flushed
             /\ postedCount' = postedCount + 2
             /\ userMarkCalls' = Append(started,
                                   ProcessCall("EndProcess", layerId, postedCount + 2))
             /\ UNCHANGED m_routeCache
     ELSE /\ userMarkCalls' = started
          /\ UNCHANGED <<renderQueue, postedCount, m_routeCache>>

\* case Message::UpdateUserMarkLayer: StartProcess() gives the provider of
\* the layer; when it is dirty a ClearUserMarkLayerMessage and then, with the
\* shapes of CacheUserMarks, a FlushUserMarksMessage are posted to the render
\* thread with Normal priority; EndProcess() is called after the if.
AcceptUpdateUserMarkLayer(msg) ==
  LET layerId == msg.layerId
      started == Append(userMarkCalls,
                        ProcessCall("StartProcess", layerId, postedCount))
  IN IF providerDirty[layerId]
     THEN LET cleared == PostMessage(renderQueue,
                           UserMarkMessage("ClearUserMarkLayer", layerId, postedCount + 1),
                           "Normal")
              flushed == PostMessage(cleared,
                           UserMarkMessage("FlushUserMarks", layerId, postedCount + 2),
                           "Normal")
          IN /\ renderQueue' = flushed
             /\ postedCount' = postedCount + 2
             /\ userMarkCalls' = Append(started,
                                   ProcessCall("EndProcess", layerId, postedCount + 2))
             /\ UNCHANGED m_routeCache
     ELSE /\ userMarkCalls' = Append(started,
                                   ProcessCall("EndProcess", layerId, postedCount))
          /\ UNCHANGED <<renderQueue, postedCount, m_routeCache>>

\* Routine::Do: ProcessSingleMessage takes the oldest message of the backend
\* and AcceptMessage handles it.
BackendAcceptMessage ==
  /\ backendQueue # <<>>
  /\ LET msg == Head(backendQueue)
     IN CASE msg.type = "AddRoute" -> AcceptAddRoute(msg)
          [] msg.type = "RemoveRoute" -> AcceptRemoveRoute(msg)
          [] msg.type = "InvalidateTextures" -> AcceptInvalidateTextures(msg)
          [] msg.type = "UpdateUserMarkLayer" -> AcceptUpdateUserMarkLayer(msg)
  /\ backendQueue' = Tail(backendQueue)
  /\ UNCHANGED <<apiCount, processed, providerDirty>>
  /\ UNCHANGED <<scanVars, procVars, leapVars, roadVars, buildVars>>

\* The render thread processes the next message of its queue.
RenderProcessMessage ==
  /\ renderQueue # <<>>
  /\ processed' = Append(processed, Head(renderQueue))
  /\ renderQueue' = Tail(renderQueue)
  /\ UNCHANGED <<backendQueue, m_routeCache, postedCount, apiCount,
                 providerDirty, userMarkCalls>>
  /\ UNCHANGED <<scanVars, procVars, leapVars, roadVars, buildVars>>

RenderNext ==
  \/ PostToBackend
  \/ PostUpdateUserMarkLayer
  \/ BackendAcceptMessage
  \/ RenderProcessMessage

InitRender == RenderInit /\ ScanIdle /\ ProcIdle /\ LeapIdle /\ RoadIdle /\ BuildIdle

SpecRender == InitRender /\ [][RenderNext]_vars

ScanNext == ScanFeature \/ ScanStep \/ ScanFeatureLeaves \/ ScanDone

InitScan == ScanInit /\ ProcIdle /\ LeapIdle /\ RoadIdle /\ BuildIdle /\ RenderIdle

SpecScan == InitScan /\ [][ScanNext]_vars

InitIndex == ProcInit /\ ScanIdle /\ LeapIdle /\ RoadIdle /\ BuildIdle /\ RenderIdle

SpecIndex == InitIndex /\ [][ProcNext]_vars

InitLeap == LeapInit /\ ScanIdle /\ ProcIdle /\ RoadIdle /\ BuildIdle /\ RenderIdle

SpecLeap == InitLeap /\ [][LeapNext]_vars

\* FillWeights runs on one thread from its first statement to its last: a
\* step that can be taken is taken.
SpecLeapFair == SpecLeap /\ WF_vars(LeapNext)

InitRoad == RoadInit(MaxRoads) /\ ScanIdle /\ ProcIdle /\ LeapIdle /\ BuildIdle /\ RenderIdle

SpecRoad == InitRoad /\ [][RoadNext]_vars

InitFakes == RoadInit(MaxRoadsWithFakes) /\ ScanIdle /\ ProcIdle /\ LeapIdle /\ BuildIdle /\ RenderIdle

SpecFakes == InitFakes /\ [][FakesNext]_vars

InitEdge == EdgeInit /\ ScanIdle /\ ProcIdle /\ LeapIdle /\ BuildIdle /\ RenderIdle

SpecEdge == InitEdge /\ [][EdgeNext]_vars

InitCross == RoadInit(MaxRoadsWithFakes) /\ ScanIdle /\ ProcIdle /\ LeapIdle /\ BuildIdle /\ RenderIdle

SpecCross == InitCross /\ [][CrossNext]_vars

\* BuildCrossMwmSection: the scan, then the leap weights.
SectionNext == ScanNext \/ SectionFillWeights

SpecSection == InitScan /\ [][SectionNext]_vars

\* Either builder at work on a tile.
InitTile == InitScan \/ InitIndex

TileNext == ScanNext \/ ProcNext

SpecTile == InitTile /\ [][TileNext]_vars

InitBuild == BuildInit /\ ScanIdle /\ ProcIdle /\ LeapIdle /\ RoadIdle /\ RenderIdle

SpecBuild == InitBuild /\ [][BuildNext]_vars


(***************************************************************************)
(* Properties of the border-crossing scan.                                 *)
(***************************************************************************)
\* The point is contained in the border polygons.
InBorders(point) == \E k \in DOMAIN borders : RegionContains(borders[k], point)

\* The positions in the transition list of the transitions of feature fid
\* with segment index seg.
TransitionsAt(fid, seg) ==
  {k \in DOMAIN transitions :
     transitions[k].featureId = fid /\ transitions[k].segmentIdx = seg}

\* While a feature is scanned, the indices 1..scanI-1 have been decided: for
\* each of them there is a transition (exactly one, with segment index j-1 and
\* enterSide = contains(p[j])) iff containment flipped between p[j-1] and
\* p[j]; no other transition of the feature exists.
C2_ScanDecided ==
  scanPc = "loop" =>
    /\ scanI <= GetPointsCount(scanF)
    /\ \A j \in 1..(scanI - 1) :
         LET ts == TransitionsAt(scanFeatureId, j - 1)
         IN /\ (ts # {}) <=> (InBorders(GetPoint(scanF, j)) # InBorders(GetPoint(scanF, j - 1)))
            /\ Cardinality(ts) <= 1
            /\ \A k \in ts : transitions[k].enterSide = InBorders(GetPoint(scanF, j))
    /\ \A k \in DOMAIN transitions :
         transitions[k].featureId = scanFeatureId =>
           transitions[k].segmentIdx \in 0..(scanI - 2)

\* The scan of a feature is left only at the end of its polyline.
C2_RunsToEnd ==
  (scanPc = "loop" /\ scanPc' # "loop") => scanI = GetPointsCount(scanF)

\* C2: in the scan of one road-masked feature a transition is emitted for
\* index i (1 <= i < n) iff contains(border, p[i]) differs from
\* contains(border, p[i-1]); it has segment index i-1 and enter_side =
\* contains(border, p[i]); the scan starts from the containment of p[0] and
\* runs to the end of the polyline.
C2_TransitionIffFlip == [](C2_ScanDecided) /\ [][C2_RunsToEnd]_vars

\* A three-point feature scanned to its end, its first segment without a
\* flip and its second with one.
C2_Witness ==
  /\ scanPc = "loop"
  /\ GetPointsCount(scanF) = 3
  /\ scanI = 3
  /\ TransitionsAt(scanFeatureId, 0) = {}
  /\ TransitionsAt(scanFeatureId, 1) # {}

\* C5: for every emitted transition exactly one of its two recorded points is
\* contained in the border polygons.
C5_OnePointInside ==
  \A k \in DOMAIN transitions :
    InBorders(transitions[k].pointOnInside) # InBorders(transitions[k].pointOnOutside)

\* A transition was emitted although the first of two regions does not hold
\* either of its points.
C5_Witness ==
  /\ Len(borders) = 2
  /\ \E k \in DOMAIN transitions :
       /\ ~RegionContains(borders[1], transitions[k].pointOnInside)
       /\ ~RegionContains(borders[1], transitions[k].pointOnOutside)


\* The positions at which the connector of vehicle type v holds the segment
\* of the transition t, <<"enter", n>> or <<"exit", n>>.
ConnectorPlaces(v, t) ==
  {<<"enter", n>> : n \in {m \in DOMAIN connectors[v].enters :
      connectors[v].enters[m] = Segment(t.featureId, t.segmentIdx, TRUE)}}
  \cup {<<"exit", n>> : n \in {m \in DOMAIN connectors[v].exits :
      connectors[v].exits[m] = Segment(t.featureId, t.segmentIdx, TRUE)}}

\* The bit of vehicle type v is set in the road mask of the transition.
HasVehicleBit(t, v) == MaskAnd(t.roadMask, GetVehicleMask(v)) # 0

\* C16: every emitted transition is in the transition list once, and the
\* connector of a vehicle type holds it (once) exactly when the bit of the
\* type is set in its road mask; a connector holds nothing else.
C16_ConnectorsFollowRoadMask ==
  /\ \A k, l \in DOMAIN transitions :
       (transitions[k].featureId = transitions[l].featureId
        /\ transitions[k].segmentIdx = transitions[l].segmentIdx) => k = l
  /\ \A v \in VehicleTypes :
       /\ \A k \in DOMAIN transitions :
            Cardinality(ConnectorPlaces(v, transitions[k]))
              = IF HasVehicleBit(transitions[k], v) THEN 1 ELSE 0
       /\ Len(connectors[v].enters) + Len(connectors[v].exits)
            = Cardinality({k \in DOMAIN transitions : HasVehicleBit(transitions[k], v)})

\* Two transitions were emitted, one of a feature no car may use and one of
\* a feature every vehicle type may use.
C16_Witness ==
  /\ \E k \in DOMAIN transitions : ~HasVehicleBit(transitions[k], Car)
  /\ \E k \in DOMAIN transitions : \A v \in VehicleTypes : HasVehicleBit(transitions[k], v)

(***************************************************************************)
(* Properties of the Processor.                                            *)
(***************************************************************************)
\* The road points of the road-masked features processed so far.
RoadPointsOfDat ==
  {rp \in [featureId : 0..(Len(dat) - 1), pointId : 0..(MaxDatPoints + 1)] :
     /\ CalcRoadMask(dat[rp.featureId + 1]) # 0
     /\ rp.pointId < GetPointsCount(dat[rp.featureId + 1])}

\* The quantised location key of the point of a road point.
KeyOfRoadPoint(rp) ==
  PointToInt64(GetPoint(dat[rp.featureId + 1], rp.pointId), CoordBits)

\* The places <<key, position>> of m_posToJoint that hold the road point.
PlacesOf(rp) ==
  {pl \in (DOMAIN m_posToJoint) \X (1..((MaxDatPoints + 1) * (MaxDatFeatures + 1))) :
     /\ pl[2] <= Len(m_posToJoint[pl[1]])
     /\ m_posToJoint[pl[1]][pl[2]] = rp}

JointsOf(rp) == {pl[1] : pl \in PlacesOf(rp)}

\* C3: the joint list BuildGraph passes to IndexGraph::Import holds exactly
\* the joints with 2 or more members: none of size 0 or 1 is imported and
\* none of size >= 2 is left out.
C3_ImportsExactlyConnectedJoints ==
  procPc = "built" =>
    /\ \A n \in DOMAIN importedJoints : Len(importedJoints[n]) >= 2
    /\ \A n \in DOMAIN importedJoints :
         \E k \in DOMAIN m_posToJoint : importedJoints[n] = m_posToJoint[k]
    /\ \A k \in DOMAIN m_posToJoint :
         Len(m_posToJoint[k]) >= 2 =>
           Cardinality({n \in DOMAIN importedJoints :
                          importedJoints[n] = m_posToJoint[k]}) = 1

\* A graph was built from a joint of size >= 2, which was imported, and a
\* joint of size 1, which was not.
C3_Witness ==
  /\ procPc = "built"
  /\ Len(importedJoints) >= 1
  /\ \E k \in DOMAIN m_posToJoint : Len(m_posToJoint[k]) = 1

\* C4: two road points of road-masked features are in the same joint iff the
\* quantised location keys of their points are equal, and every vertex of
\* every road-masked feature is a member of exactly one joint, once.
C4_JointIffSameKey ==
  /\ \A rp \in RoadPointsOfDat : Cardinality(PlacesOf(rp)) = 1
  /\ \A rp, rq \in RoadPointsOfDat :
       (JointsOf(rp) \cap JointsOf(rq) # {}) <=> (KeyOfRoadPoint(rp) = KeyOfRoadPoint(rq))

\* Two features share a joint through points that differ but quantise to the
\* same key, and a third vertex lies in another joint.
C4_Witness ==
  \E rp, rq, rr \in RoadPointsOfDat :
    /\ rp.featureId # rq.featureId
    /\ GetPoint(dat[rp.featureId + 1], rp.pointId) #
         GetPoint(dat[rq.featureId + 1], rq.pointId)
    /\ JointsOf(rp) = JointsOf(rq)
    /\ rp.pointId = 1
    /\ JointsOf(rr) # JointsOf(rp)


(***************************************************************************)
(* Properties of FillWeights.                                              *)
(***************************************************************************)
\* Larger than the length of any shortest path.
Unreachable == NumSegments * MaxEdgeWeight + 1

Min2(a, b) == IF a <= b THEN a ELSE b

RECURSIVE MinOver(_, _, _)
\* The least of d[u] + weight(u -> x) over the segments u in us.
MinOver(d, x, us) ==
  IF us = {} THEN Unreachable
  ELSE LET u == CHOOSE u \in us : TRUE
           via == IF graphW[<<u, x>>] = NoEdge \/ d[u] = Unreachable
                  THEN Unreachable
                  ELSE d[u] + graphW[<<u, x>>]
       IN Min2(via, MinOver(d, x, us \ {u}))

RECURSIVE DistWithin(_, _)
\* The length of the shortest path from e to every segment over at most k
\* outgoing edges of the index graph, Unreachable when there is none.
DistWithin(e, k) ==
  IF k = 0 THEN [x \in Segs |-> IF x = e THEN 0 ELSE Unreachable]
  ELSE LET d == DistWithin(e, k - 1)
       IN [x \in Segs |-> Min2(d[x], MinOver(d, x, Segs))]

ShortestDistance(e, x) == DistWithin(e, NumSegments - 1)[x]

\* C1: after FillWeights the weight handed to connector.FillWeights for an
\* enter e and an exit x is the shortest-path distance from e to x over the
\* outgoing edges of the index graph when x is reachable from e, and
\* kNoRoute when it is not.
C1_LeapWeightIsShortestDistance ==
  leapPc = "done" =>
    \A a \in DOMAIN enters : \A b \in DOMAIN exits :
      connWeights[<<a, b>>] =
        IF ShortestDistance(enters[a], exits[b]) < Unreachable
        THEN ShortestDistance(enters[a], exits[b])
        ELSE kNoRoute

\* Two waves have run: the first enter reaches an exit over two edges that
\* are shorter than the direct edge, and the second enter does not reach an
\* exit that the first enter reaches.
C1_Witness ==
  /\ leapPc = "done"
  /\ Len(enters) = 2
  /\ \E b \in DOMAIN exits :
       /\ graphW[<<enters[1], exits[b]>>] = MaxEdgeWeight
       /\ connWeights[<<1, b>>] = 2
  /\ \E b \in DOMAIN exits :
       /\ connWeights[<<1, b>>] # kNoRoute
       /\ connWeights[<<2, b>>] = kNoRoute


\* Every edge weight of the index graph is non-negative.
EdgeWeightsNonNegative ==
  \A p \in Segs \X Segs : graphW[p] # NoEdge => graphW[p] >= 0

\* C18: when no edge weight of the index graph is negative, every weight
\* recorded for an enter and an exit the wave reached, in weights and in the
\* connector's table, is non-negative.  (That the table need not be
\* symmetric is shown by the state C18_Witness describes.)
C18_LeapWeightsNonNegative ==
  EdgeWeightsNonNegative =>
    /\ \A e \in DOMAIN weights : \A x \in DOMAIN weights[e] : weights[e][x] >= 0
    /\ \A ix \in DOMAIN connWeights :
         connWeights[ix] # kNoRoute => connWeights[ix] >= 0

\* Two segments are both enters and exits, each reaches the other, and the
\* weight from the first to the second differs from the weight back.
C18_Witness ==
  /\ leapPc = "done"
  /\ \E a, c \in DOMAIN enters : \E b, d \in DOMAIN exits :
       /\ enters[a] = exits[d]
       /\ enters[c] = exits[b]
       /\ enters[a] # enters[c]
       /\ connWeights[<<a, b>>] # kNoRoute
       /\ connWeights[<<c, d>>] # kNoRoute
       /\ connWeights[<<a, b>>] # connWeights[<<c, d>>]

(***************************************************************************)
(* Properties of the incident edges of a junction.                         *)
(***************************************************************************)
\* The positions in an edge vector of the edges of feature f with the given
\* direction.
EdgesOfDirection(edges, f, forward) ==
  {k \in DOMAIN edges : edges[k].featureId = f /\ edges[k].forward = forward}

\* The positions of the edges of feature f with the given direction and
\* segment.
EdgesOfSegment(edges, f, forward, segId) ==
  {k \in EdgesOfDirection(edges, f, forward) : edges[k].segId = segId}

\* The feature ids of the roads, and the vertex indices of a road.
FeatureIds == 0..(Len(roads) - 1)
VertexIds(f) == 0..(Len(roads[f + 1].m_junctions) - 1)
JunctionOf(f, i) == roads[f + 1].m_junctions[i + 1]

\* No other vertex of feature f is equal, up to epsilon, to its vertex i.
VertexIsAlone(f, i) ==
  \A k \in VertexIds(f) :
    k # i => ~PointsAlmostEqualAbs(JunctionOf(f, i).point, JunctionOf(f, k).point,
                                   kPointsEqualEpsilon)

\* C6 (amended): the outgoing edges of the junction at vertex i of feature f
\* hold exactly one forward edge of f on segment i when the vertex has a
\* successor and none when it is the last one; when f is bidirectional they
\* hold exactly one backward edge of f on segment i - 1 when the vertex has a
\* predecessor, and no backward edge of f at a first vertex that is alone.
C6_OneEdgePerIncidentSegment ==
  lastOp = "GetOutgoingEdges" =>
    \A f \in FeatureIds : \A i \in VertexIds(f) :
      lastJunction = JunctionOf(f, i) =>
        /\ (i + 1 < Len(roads[f + 1].m_junctions)
              => Cardinality(EdgesOfSegment(lastEdges, f, TRUE, i)) = 1)
        /\ (i + 1 = Len(roads[f + 1].m_junctions)
              => EdgesOfSegment(lastEdges, f, TRUE, i) = {})
        /\ (roads[f + 1].m_bidirectional /\ i > 0
              => Cardinality(EdgesOfSegment(lastEdges, f, FALSE, i - 1)) = 1)
        /\ (roads[f + 1].m_bidirectional /\ i = 0 /\ VertexIsAlone(f, i)
              => EdgesOfDirection(lastEdges, f, FALSE) = {})

\* The outgoing edges were asked at an inner vertex of a bidirectional
\* feature, next to another feature.
C6_Witness ==
  /\ lastOp = "GetOutgoingEdges"
  /\ Len(roads) = 2
  /\ \E f \in FeatureIds : \E i \in VertexIds(f) :
       /\ roads[f + 1].m_bidirectional
       /\ i > 0
       /\ i + 1 < Len(roads[f + 1].m_junctions)
       /\ lastJunction = JunctionOf(f, i)
       /\ Len(lastEdges) > 2

\* C6 as stated, the vertex indices read as those that have a successor:
\* exactly one forward edge of f on segment i and, if f is bidirectional,
\* exactly one backward edge of f.  The first vertex of a bidirectional
\* feature has no backward edge.
C6_AsStated ==
  lastOp = "GetOutgoingEdges" =>
    \A f \in FeatureIds : \A i \in VertexIds(f) :
      (lastJunction = JunctionOf(f, i) /\ i + 1 < Len(roads[f + 1].m_junctions)) =>
        /\ Cardinality(EdgesOfSegment(lastEdges, f, TRUE, i)) = 1
        /\ (roads[f + 1].m_bidirectional
              => Cardinality(EdgesOfDirection(lastEdges, f, FALSE)) = 1)

\* The feature is one-way, in the direction of its points.
IsOneWayForward(f) == ~roads[f + 1].m_bidirectional

\* What both statements of the mode say of IgnoreOnewayTag: at every vertex
\* of a one-way feature the edges of both directions are produced.
BothDirectionsWhenIgnored ==
  \A f \in FeatureIds : \A i \in VertexIds(f) :
    (IsOneWayForward(f) /\ mode = "IgnoreOnewayTag" /\ lastJunction = JunctionOf(f, i)) =>
      /\ (lastOp = "GetOutgoingEdges" /\ i + 1 < Len(roads[f + 1].m_junctions)
            => EdgesOfSegment(lastEdges, f, TRUE, i) # {})
      /\ (lastOp = "GetOutgoingEdges" /\ i > 0
            => EdgesOfSegment(lastEdges, f, FALSE, i - 1) # {})
      /\ (lastOp = "GetIngoingEdges" /\ i + 1 < Len(roads[f + 1].m_junctions)
            => EdgesOfSegment(lastEdges, f, FALSE, i) # {})
      /\ (lastOp = "GetIngoingEdges" /\ i > 0
            => EdgesOfSegment(lastEdges, f, TRUE, i - 1) # {})

\* C7 (amended): for a one-way feature F under ObeyOnewayTag, every edge of
\* F among the outgoing and the ingoing edges of its start runs forward;
\* when no other vertex of F is equal to the start up to epsilon, the
\* outgoing edges hold exactly the forward edge of segment 0 and the ingoing
\* edges hold no edge of F.  Under IgnoreOnewayTag both directions are
\* produced at every vertex of F.
C7_OnewayObeyedOrIgnored ==
  /\ \A f \in FeatureIds :
       (IsOneWayForward(f) /\ mode = "ObeyOnewayTag" /\ lastJunction = JunctionOf(f, 0)) =>
         /\ (lastOp \in {"GetOutgoingEdges", "GetIngoingEdges"}
               => EdgesOfDirection(lastEdges, f, FALSE) = {})
         /\ (lastOp = "GetOutgoingEdges" /\ VertexIsAlone(f, 0)
               => /\ Cardinality(EdgesOfDirection(lastEdges, f, TRUE)) = 1
                  /\ EdgesOfSegment(lastEdges, f, TRUE, 0) # {})
         /\ (lastOp = "GetIngoingEdges" /\ VertexIsAlone(f, 0)
               => EdgesOfDirection(lastEdges, f, TRUE) = {})
  /\ BothDirectionsWhenIgnored

\* The ingoing edges were asked at the start of a one-way feature under
\* ObeyOnewayTag, and edges of another feature came back.
C7_Witness ==
  /\ lastOp = "GetIngoingEdges"
  /\ mode = "ObeyOnewayTag"
  /\ \E f \in FeatureIds :
       /\ IsOneWayForward(f)
       /\ VertexIsAlone(f, 0)
       /\ lastJunction = JunctionOf(f, 0)
       /\ lastEdges # <<>>

\* C7 as stated: under ObeyOnewayTag the outgoing edges of the start of F
\* hold only the forward edge of F and the ingoing edges hold no edge of F.
\* A one-way feature that comes back to its start has an ingoing edge there.
C7_AsStated ==
  /\ \A f \in FeatureIds :
       (IsOneWayForward(f) /\ mode = "ObeyOnewayTag" /\ lastJunction = JunctionOf(f, 0)) =>
         /\ (lastOp = "GetOutgoingEdges"
               => /\ EdgesOfDirection(lastEdges, f, FALSE) = {}
                  /\ Cardinality(EdgesOfDirection(lastEdges, f, TRUE)) = 1
                  /\ EdgesOfSegment(lastEdges, f, TRUE, 0) # {})
         /\ (lastOp = "GetIngoingEdges"
               => /\ EdgesOfDirection(lastEdges, f, FALSE) = {}
                  /\ EdgesOfDirection(lastEdges, f, TRUE) = {})
  /\ BothDirectionsWhenIgnored

(***************************************************************************)
(* Properties of the fake-edge overlay.                                    *)
(***************************************************************************)
\* The number of positions of an edge vector that hold the edge e.
Occurrences(edges, e) == Cardinality({k \in DOMAIN edges : edges[k] = e})

\* The edges an edge vector holds.
EdgeSet(edges) == Range(edges)

\* C8: in every state and at every junction the outgoing edges are the
\* disjoint union of the regular and of the fake outgoing edges: no edge is
\* in both views, and every edge is returned as often as the two views hold
\* it, so none is missing and none is added.
C8_OutgoingIsDisjointUnion ==
  \A j \in Junctions :
    LET all == GetOutgoingEdges(j)
        regular == GetRegularOutgoingEdges(j)
        fake == GetFakeOutgoingEdges(j)
    IN /\ EdgeSet(regular) \cap EdgeSet(fake) = {}
       /\ \A e \in EdgeSet(all) \cup EdgeSet(regular) \cup EdgeSet(fake) :
            Occurrences(all, e) = Occurrences(regular, e) + Occurrences(fake, e)

\* After two calls of AddFakeEdges some junction has both regular and fake
\* outgoing edges.
C8_Witness ==
  /\ addFakeCalls = 2
  /\ \E j \in Junctions :
       GetRegularOutgoingEdges(j) # <<>> /\ GetFakeOutgoingEdges(j) # <<>>

\* C9: after ResetFakes the fake outgoing and the fake ingoing edges of
\* every junction are empty.
C9_ResetEmptiesBothOverlays ==
  lastOp = "ResetFakes" =>
    \A j \in Junctions :
      GetFakeOutgoingEdges(j) = <<>> /\ GetFakeIngoingEdges(j) = <<>>

\* ResetFakes came after two calls of AddFakeEdges on a graph with a road.
C9_Witness ==
  /\ lastOp = "ResetFakes"
  /\ addFakeCalls = 2
  /\ roads # <<>>

\* Every entry of the fake-edge map m is kept by the map n, its edges first.
OverlayPreserved(m, n) ==
  \A p \in DOMAIN m :
    /\ p \in DOMAIN n
    /\ Len(m[p]) <= Len(n[p])
    /\ \A k \in DOMAIN m[p] : n[p][k] = m[p][k]

\* What a step may do to the overlay maps.
C10_Step ==
  /\ (lastOp' = "AddFakeEdges"
        => /\ OverlayPreserved(m_fakeOutgoingEdges, m_fakeOutgoingEdges')
           /\ OverlayPreserved(m_fakeIngoingEdges, m_fakeIngoingEdges'))
  /\ (lastOp' \notin {"AddFakeEdges", "ResetFakes"}
        => UNCHANGED <<m_fakeOutgoingEdges, m_fakeIngoingEdges>>)

\* C10: a call of AddFakeEdges keeps every entry and every edge the two
\* overlay maps had, and a step that is neither AddFakeEdges nor ResetFakes
\* leaves both maps as they are.
C10_OverlayIsAdditive == [][C10_Step]_vars

\* The second call of AddFakeEdges, with one vicinity and from a junction
\* off the road, has appended to what the first one left at that junction.
C10_Witness ==
  /\ lastOp = "AddFakeEdges"
  /\ addFakeCalls = 2
  /\ Len(lastEdges) = 1
  /\ lastJunction.point[2] = OffRoadY
  /\ Len(GetFakeOutgoingEdges(lastJunction)) = 2

C12_ReverseSwapsAndFlips ==
  lastOp = "GetReverseEdge" =>
    /\ \A k \in 2..Len(lastEdges) :
         LET e == lastEdges[k - 1]
             r == lastEdges[k]
         IN /\ JunctionEq(r.startJunction, e.endJunction)
            /\ JunctionEq(r.endJunction, e.startJunction)
            /\ r.forward = ~e.forward
            /\ r.featureId = e.featureId
            /\ r.segId = e.segId
            /\ r.partOfReal = e.partOfReal
    /\ \A k \in 3..Len(lastEdges) : EdgeEq(lastEdges[k], lastEdges[k - 2])

\* A fake edge between two different junctions, not part of a real edge, was
\* reversed twice.
C12_Witness ==
  /\ lastOp = "GetReverseEdge"
  /\ Len(lastEdges) = 3
  /\ IsFake(lastEdges[1])
  /\ ~lastEdges[1].partOfReal
  /\ ~JunctionEq(lastEdges[1].startJunction, lastEdges[1].endJunction)

(***************************************************************************)
(* Properties of the entry points.                                         *)
(***************************************************************************)
\* C13 as stated: BuildRoutingIndex returns true only when the features
\* were processed, the graph was built and the whole section was written;
\* when a step raises it logs and returns false, and then no partly written
\* section is committed to the archive.  A Serialize that raises leaves the
\* part it wrote in the container, which its destructor closes.
C13_AsStated ==
  builder = "BuildRoutingIndex" =>
    /\ (buildResult = "true"
          => /\ {"dat", "archive"} \subseteq ioDone
             /\ sectionWritten = sectionTotal
             /\ sectionCommitted)
    /\ (buildResult = "false"
          => /\ errorLogged
             /\ ~(sectionCommitted /\ sectionWritten < sectionTotal))

\* C14 as stated: when a vehicle model is missing, either builder is aborted
\* by the CHECKs of VehicleMaskBuilder before any file was opened or read
\* (a run that an I/O error ended is left aside).  CalcCrossMwmTransitions
\* loads the border file first.
C14_AsStated ==
  (availableModels # VehicleTypes /\ buildPc = "done" /\ buildResult # "raised") =>
    /\ buildResult = "aborted"
    /\ ioDone = {}

\* The road points that are members of some joint of m_posToJoint.
JointMembers == UNION {Range(m_posToJoint[k]) : k \in DOMAIN m_posToJoint}

\* The road points that are members of an imported joint.
ImportedMembers == UNION {Range(importedJoints[n]) : n \in DOMAIN importedJoints}

\* C15: the mask table has an entry for a processed feature exactly when its
\* road mask is not zero, and the entry is that mask, whether or not a
\* vertex of the feature is in a joint of size >= 2; a feature whose road
\* mask is zero has no road point in any joint.
C15_MasksOfAllRoadFeatures ==
  /\ DOMAIN m_masks \subseteq 0..(Len(dat) - 1)
  /\ \A id \in 0..(Len(dat) - 1) :
       LET mask == CalcRoadMask(dat[id + 1])
       IN /\ (id \in DOMAIN m_masks) <=> (mask # 0)
          /\ (mask # 0 => m_masks[id] = mask)
          /\ (mask = 0 => \A rp \in JointMembers : rp.featureId # id)

\* The graph was built from a road feature with points none of which is in
\* an imported joint, and a feature that is no road.
C15_Witness ==
  /\ procPc = "built"
  /\ \E id \in DOMAIN m_masks :
       /\ GetPointsCount(dat[id + 1]) > 0
       /\ \A rp \in ImportedMembers : rp.featureId # id
  /\ \E id \in 0..(Len(dat) - 1) :
       CalcRoadMask(dat[id + 1]) = 0 /\ GetPointsCount(dat[id + 1]) > 0

(***************************************************************************)
(* Properties of both builders.                                            *)
(***************************************************************************)
\* The processed features that are roads and have no points.
EmptyRoadFeatures ==
  {id \in 0..(Len(dat) - 1) :
     CalcRoadMask(dat[id + 1]) # 0 /\ GetPointsCount(dat[id + 1]) = 0}

\* The Processor keeps no road point of a road feature without points, and
\* keeps its mask.
C17_EmptyInProcessor ==
  \A id \in EmptyRoadFeatures :
    /\ \A rp \in JointMembers : rp.featureId # id
    /\ id \in DOMAIN m_masks
    /\ m_masks[id] = CalcRoadMask(dat[id + 1])

\* The scan passes over a road feature without points: the transition list
\* and the connectors are left as they are and the next feature is awaited.
C17_EmptyInScan ==
  \A f \in ScanFeatures :
    (/\ scanPc = "next"
     /\ CalcRoadMask(f) # 0
     /\ GetPointsCount(f) = 0
     /\ ScanFeatureEnters(f))
      => /\ scanPc' = "next"
         /\ UNCHANGED <<transitions, connectors>>

\* C17 (amended): a road feature with zero points raises no error, produces
\* no transition and becomes no member of a joint; the Processor still
\* records its road mask in the mask table.
C17_EmptyFeatureSkipped == [](C17_EmptyInProcessor) /\ [][C17_EmptyInScan]_vars

\* A road feature without points was processed after a road feature with
\* points.
C17_Witness ==
  /\ EmptyRoadFeatures # {}
  /\ JointMembers # {}

\* C17 as stated: a road feature with zero points leaves no joint member and
\* no other recorded entry in the builder's output.  Its mask is recorded.
C17_AsStated ==
  \A id \in EmptyRoadFeatures :
    /\ \A rp \in JointMembers : rp.featureId # id
    /\ id \notin DOMAIN m_masks

(***************************************************************************)
(* Properties of the junctions.                                            *)
(***************************************************************************)
\* The map has one key at most for the junctions of a point.
OneKeyPerPoint(m) ==
  \A k1, k2 \in DOMAIN m : k1.point = k2.point => k1 = k2

\* C20: two junctions with the same point are equal and neither is less than
\* the other, whatever their altitudes, and the two fake-edge maps give both
\* the same entry; two junctions with different points are not equal and one
\* of them is less than the other.
C20_JunctionComparedByPoint ==
  /\ \A j1, j2 \in Junctions :
       IF j1.point = j2.point
       THEN /\ JunctionEq(j1, j2)
            /\ ~JunctionLess(j1, j2)
            /\ ~JunctionLess(j2, j1)
            /\ KeysAt(m_fakeOutgoingEdges, j1) = KeysAt(m_fakeOutgoingEdges, j2)
            /\ KeysAt(m_fakeIngoingEdges, j1) = KeysAt(m_fakeIngoingEdges, j2)
            /\ GetFakeOutgoingEdges(j1) = GetFakeOutgoingEdges(j2)
            /\ GetFakeIngoingEdges(j1) = GetFakeIngoingEdges(j2)
       ELSE /\ ~JunctionEq(j1, j2)
            /\ JunctionLess(j1, j2) # JunctionLess(j2, j1)
  /\ OneKeyPerPoint(m_fakeOutgoingEdges)
  /\ OneKeyPerPoint(m_fakeIngoingEdges)

\* AddFakeEdges was called twice from the same point with different
\* altitudes: the second call found the entry the first one made.
C20_Witness ==
  /\ lastOp = "AddFakeEdges"
  /\ lastEdges # <<>>
  /\ \E k \in DOMAIN m_fakeOutgoingEdges :
       /\ k.point = lastJunction.point
       /\ k.altitude # lastJunction.altitude
       /\ Len(m_fakeOutgoingEdges[k]) >= 2

(***************************************************************************)
(* Properties of ForEachEdge.                                              *)
(***************************************************************************)
\* The road ForEachEdge was called with, and its vertices equal to the cross.
CrossRoad == roads[Len(roads)]

CrossVertices ==
  {i \in 0..(Len(CrossRoad.m_junctions) - 1) :
     PointsAlmostEqualAbs(lastJunction.point, CrossRoad.m_junctions[i + 1].point,
                          kPointsEqualEpsilon)}

\* The positions of the calls of fn with the given segment and direction.
CallsOf(segId, forward) ==
  {k \in DOMAIN lastEdges :
     lastEdges[k].segId = segId /\ lastEdges[k].forward = forward}

\* C21 (amended): for every vertex i equal to the cross, ForEachEdge calls fn
\* once with (i, vertex i + 1, forward) when the vertex has a successor and
\* once with (i - 1, vertex i - 1, backward) when it has a predecessor, so
\* twice for an inner vertex and once for the first and for the last one;
\* a vertex not equal to the cross gives no call, and there is no other call.
C21_CallsPerMatchingVertex ==
  lastOp = "ForEachEdge" =>
    LET size == Len(CrossRoad.m_junctions)
        heads == {i \in CrossVertices : i + 1 < size}
        tails == {i \in CrossVertices : i > 0}
    IN /\ \A i \in 0..(size - 1) :
            /\ Cardinality(CallsOf(i, TRUE)) = IF i \in heads THEN 1 ELSE 0
            /\ Cardinality(CallsOf(i - 1, FALSE)) = IF i \in tails THEN 1 ELSE 0
            /\ \A k \in CallsOf(i, TRUE) :
                 lastEdges[k].junction = CrossRoad.m_junctions[i + 2]
            /\ \A k \in CallsOf(i - 1, FALSE) :
                 lastEdges[k].junction = CrossRoad.m_junctions[i]
       /\ Len(lastEdges) = Cardinality(heads) + Cardinality(tails)

\* ForEachEdge was called at a cross equal to the first, to the inner and to
\* the last vertex of a road of three points: four calls.
C21_Witness ==
  /\ lastOp = "ForEachEdge"
  /\ Len(CrossRoad.m_junctions) = 3
  /\ CrossVertices = {0, 1, 2}
  /\ Len(lastEdges) = 4

\* C21 as stated: two calls for every vertex equal to the cross, one with
\* segment i forward and one with segment i - 1 backward.  The first vertex
\* has no predecessor and the last one no successor.
C21_AsStated ==
  lastOp = "ForEachEdge" =>
    /\ \A i \in CrossVertices :
         /\ Cardinality(CallsOf(i, TRUE)) = 1
         /\ Cardinality(CallsOf(i - 1, FALSE)) = 1
    /\ Len(lastEdges) = 2 * Cardinality(CrossVertices)

(***************************************************************************)
(* Termination of the waves.                                               *)
(***************************************************************************)
\* The segments reachable from e over the outgoing edges of the index graph.
ReachableFrom(e) == {x \in Segs : ShortestDistance(e, x) < Unreachable}

\* The wave has returned and its result is about to be recorded.
WaveReturned == leapPc = "wave" /\ queue = {}

\* The wave returns with a distance for exactly the segments reachable from
\* the enter, and the distance is the final one.
C22_WaveExhausted ==
  WaveReturned =>
    LET enter == enters[enterIdx + 1]
    IN /\ DOMAIN distanceMap = ReachableFrom(enter)
       /\ \A x \in DOMAIN distanceMap : distanceMap[x] = ShortestDistance(enter, x)

\* The queue is emptied one state at a time, never all at once by the stop
\* predicate, and the loop over the enters goes on only after the queue is
\* empty.
C22_NoEarlyExit ==
  /\ (leapPc = "wave" /\ queue # {}) =>
        (queue \ {QueueTop(queue)}) \subseteq queue'
  /\ (leapPc = "wave" /\ leapPc' # "wave") =>
        (queue = {} /\ leapPc' = "loop" /\ enterIdx' = enterIdx + 1)

\* C22: the stop predicate of a wave is constantly false; over a finite index
\* graph with non-negative weights every wave ends, only with an empty queue
\* and with a final distance for every segment reachable from its enter; the
\* loop then goes on to the next enter and connector.FillWeights is called
\* in the end.
C22_WavesRunToExhaustion ==
  /\ \A v \in Segs : ~ShouldStop(v)
  /\ [](C22_WaveExhausted)
  /\ [][C22_NoEarlyExit]_vars
  /\ <>(leapPc = "done")

\* The wave of the second enter has returned from a graph with a cycle,
\* having passed an exit on its way to a segment farther on.
C22_Witness ==
  /\ WaveReturned
  /\ enterIdx = 1
  /\ \E u, v \in Segs : graphW[<<u, v>>] # NoEdge /\ graphW[<<v, u>>] # NoEdge
  /\ \E x \in Range(exits) : \E y \in DOMAIN distanceMap :
       /\ x \in DOMAIN distanceMap
       /\ x # enters[2]
       /\ distanceMap[y] > distanceMap[x]

(***************************************************************************)
(* Properties of BuildCrossMwmSection.                                     *)
(***************************************************************************)
\* The transitions a vehicle type may use.
TransitionsOfType(v) == {k \in DOMAIN transitions : HasVehicleBit(transitions[k], v)}

\* The weight table of the connector is filled for its enters and exits.
TableFilled(connector) ==
  DOMAIN connector.weights = (DOMAIN connector.enters) \X (DOMAIN connector.exits)

\* C23: BuildCrossMwmSection fills the weight table of the Car connector
\* only: the tables of the Pedestrian and of the Bicycle connector are as
\* their constructors left them, in every state of the build, while their
\* enters and exits are those of the transitions of their type.
C23_OnlyCarWeightsFilled ==
  /\ \A v \in VehicleTypes \ {Car} :
       /\ connectors[v].weights = EmptyConnector.weights
       /\ Len(connectors[v].enters) + Len(connectors[v].exits)
            = Cardinality(TransitionsOfType(v))
  /\ leapPc = "done" => TableFilled(connectors[Car])

\* The build is over: the pedestrian connector has an enter and an exit and
\* no weights, the car connector has a table with a route and a pair
\* without one.
C23_Witness ==
  /\ leapPc = "done"
  /\ connectors[Pedestrian].enters # <<>>
  /\ connectors[Pedestrian].exits # <<>>
  /\ \E ix \in DOMAIN connectors[Car].weights : connectors[Car].weights[ix] # kNoRoute
  /\ \E ix \in DOMAIN connectors[Car].weights : connectors[Car].weights[ix] = kNoRoute

(***************************************************************************)
(* Order of the transition list.                                           *)
(***************************************************************************)
\* The transitions come in ascending order of feature id (the order in which
\* the reader delivers the features) and, within a feature, of segment index.
TransitionsOrdered ==
  \A k, l \in DOMAIN transitions :
    k < l =>
      \/ transitions[k].featureId < transitions[l].featureId
      \/ /\ transitions[k].featureId = transitions[l].featureId
         /\ transitions[k].segmentIdx < transitions[l].segmentIdx

RECURSIVE FlipsBelow(_, _, _)
\* The transitions the borders and the polyline of f, with feature id fid,
\* determine for the indices below i, in ascending order of the index.
FlipsBelow(f, fid, i) ==
  IF i <= 1 THEN <<>>
  ELSE FlipsBelow(f, fid, i - 1)
       \o (IF InBorders(GetPoint(f, i - 1)) # InBorders(GetPoint(f, i - 2))
           THEN <<Transition(fid, i - 2, CalcRoadMask(f), CalcOneWayMask(f),
                             InBorders(GetPoint(f, i - 1)),
                             GetPoint(f, i - 2), GetPoint(f, i - 1))>>
           ELSE <<>>)

\* The transitions of the feature being scanned, in the order of the list.
TransitionsOfScanned ==
  LET own(t) == t.featureId = scanFeatureId
  IN SelectSeq(transitions, own)

\* While a feature is scanned its transitions are those its polyline and the
\* borders determine, in that order, and they are the tail of the list.
TransitionsDetermined ==
  scanPc = "loop" =>
    /\ TransitionsOfScanned = FlipsBelow(scanF, scanFeatureId, scanI)
    /\ \A k \in DOMAIN transitions :
         k <= Len(transitions) - Len(TransitionsOfScanned)
           => transitions[k].featureId < scanFeatureId

\* A step leaves the transitions emitted so far where they are.
TransitionsKept ==
  /\ Len(transitions) <= Len(transitions')
  /\ SubSeq(transitions', 1, Len(transitions)) = transitions

\* C24: the transition list is in the order in which the features are
\* delivered and, within a feature, in ascending order of segment index;
\* the part of each feature is determined by its polyline and the borders
\* and, once emitted, stays where it is, so that the same features and
\* borders give the same list.
C24_ListInIterationOrder ==
  [](TransitionsOrdered /\ TransitionsDetermined) /\ [][TransitionsKept]_vars

\* Two features were scanned; one of them crossed the border twice and the
\* other once.
C24_Witness ==
  /\ scanPc = "done"
  /\ Len(transitions) = 3
  /\ transitions[1].featureId = 0
  /\ transitions[3].featureId = 1

\* The steps of BuildCrossMwmSection that read its inputs: the borders, the
\* features and the index graph.
InputSteps == {"start", "transitions", "weights"}

\* Until the section is serialised nothing is written to it and no container
\* holds it; a run that ended with an exception of an input step has
\* written nothing.
C25_NothingWrittenBefore ==
  builder = "BuildCrossMwmSection" =>
    /\ (buildPc # "done" => sectionWritten = 0 /\ ~sectionCommitted)
    /\ ((sectionWritten > 0 \/ sectionCommitted)
          => {"borders", "dat", "archive"} \subseteq ioDone)

\* An exception of an input step ends the function at once and leaves the
\* section untouched; the section is written by the last step only.
C25_ErrorPropagates ==
  builder = "BuildCrossMwmSection" =>
    /\ (buildPc \in InputSteps /\ buildResult' = "raised")
          => (buildPc' = "done" /\ UNCHANGED <<sectionWritten, sectionCommitted>>)
    /\ (buildPc # "serialize" => UNCHANGED <<sectionWritten, sectionCommitted>>)
    /\ (buildPc' = "serialize" => (buildPc = "weights" /\ buildResult' = "running"))
    /\ (buildPc' = "weights" => (buildPc = "transitions" /\ buildResult' = "running"))

FeaturesOfJoint(joint) == {rp.featureId : rp \in Range(joint)}

C27_AsStated ==
  \A k \in DOMAIN transitions :
    /\ InBorders(transitions[k].pointOnInside)
    /\ ~InBorders(transitions[k].pointOnOutside)

(***************************************************************************)
(* Properties of the backend renderer.                                     *)
(***************************************************************************)
\* The messages of the given type among those of a sequence.
OfType(q, type) == {k \in DOMAIN q : q[k].type = type}

\* When the render thread has processed a RemoveRouteMessage, it has
\* processed before it every FlushRouteMessage the backend posted before it,
\* and none of them waits in the queue.
RemoveAfterFlushes ==
  \A k \in OfType(processed, "RemoveRoute") :
    /\ \A l \in OfType(renderQueue, "FlushRoute") :
         renderQueue[l].stamp > processed[k].stamp
    /\ \A l \in OfType(processed, "FlushRoute") :
         processed[l].stamp < processed[k].stamp => l < k

\* The RemoveRoute case: the route cache is cleared and one
\* RemoveRouteMessage of Normal priority joins the end of the render queue.
RemoveRouteHandled ==
  (backendQueue # <<>> /\ backendQueue' = Tail(backendQueue)
   /\ Head(backendQueue).type = "RemoveRoute")
    => /\ m_routeCache' = {}
       /\ Len(renderQueue') = Len(renderQueue) + 1
       /\ SubSeq(renderQueue', 1, Len(renderQueue)) = renderQueue
       /\ renderQueue'[Len(renderQueue')].type = "RemoveRoute"
       /\ renderQueue'[Len(renderQueue')].priority = "Normal"

\* C28: the backend renderer handles RemoveRoute by clearing the route cache
\* and posting a RemoveRouteMessage of Normal priority to the render thread,
\* and the render thread processes that message after every
\* FlushRouteMessage of the route builds the backend handled before it.
C28_RemoveRouteAfterFlushRoute == [](RemoveAfterFlushes) /\ [][RemoveRouteHandled]_vars

\* Two routes were built, a High-priority message overtook their flushes,
\* and the render thread has processed both flushes and then the removal.
C28_Witness ==
  /\ Cardinality(OfType(processed, "FlushRoute")) = 2
  /\ OfType(processed, "MapShapes") # {}
  /\ processed[1].type = "MapShapes"
  /\ processed[1].stamp > 1
  /\ processed[Len(processed)].type = "RemoveRoute"
  /\ m_routeCache = {}

(***************************************************************************)
(* The distance map shared by the waves.                                   *)
(***************************************************************************)
\* While the wave of an enter runs, the distance map holds segments
\* reachable from that enter only.
NoStaleDistance ==
  leapPc = "wave" => DOMAIN distanceMap \subseteq ReachableFrom(enters[enterIdx + 1])

\* The weights recorded for an enter are those of exits reachable from it.
WeightsFromOwnWave ==
  \A e \in DOMAIN weights : \A x \in DOMAIN weights[e] :
    x \in ReachableFrom(e) /\ weights[e][x] = ShortestDistance(e, x)

C30_PrevIsContainmentOfPrevPoint ==
  scanPc = "loop" =>
    /\ 1 <= scanI /\ scanI <= GetPointsCount(scanF)
    /\ prevPointIn = InBorders(GetPoint(scanF, scanI - 1))

\* A feature of three points was scanned to its end: a flip at its second
\* point, after which prevPointIn was assigned, and none at its third.
C30_Witness ==
  /\ scanPc = "loop"
  /\ GetPointsCount(scanF) = 3
  /\ scanI = 3
  /\ InBorders(GetPoint(scanF, 0)) # InBorders(GetPoint(scanF, 1))
  /\ InBorders(GetPoint(scanF, 1)) = InBorders(GetPoint(scanF, 2))
  /\ Len(borders) = 2

(***************************************************************************)
(* Alternation of the transitions of one feature.                          *)
(***************************************************************************)
\* Neighbours in the list that belong to one feature have opposite
\* enterSide.
TransitionsAlternate ==
  \A k \in DOMAIN transitions :
    (k < Len(transitions)
       /\ transitions[k].featureId = transitions[k + 1].featureId)
      => transitions[k].enterSide # transitions[k + 1].enterSide

\* A step that emits a transition emits one of the scanned feature, with a
\* road mask that is not zero and a segment index below the number of
\* segments of the polyline; the first transition of a feature has the
\* enterSide opposite to the containment of the feature's first point.
EmittedWellFormed ==
  Len(transitions') > Len(transitions) =>
    LET t == transitions'[Len(transitions')]
    IN /\ Len(transitions') = Len(transitions) + 1
       /\ t.featureId = scanFeatureId
       /\ t.roadMask # 0
       /\ 0 <= t.segmentIdx
       /\ t.segmentIdx < GetPointsCount(scanF) - 1
       /\ TransitionsOfScanned = <<>>
            => t.enterSide = ~InBorders(GetPoint(scanF, 0))

\* C31: along one feature the emitted transitions alternate: consecutive
\* transitions of the same feature have opposite enterSide, the first one
\* has the enterSide opposite to the containment of the first point, and
\* every transition has a road mask that is not zero and a segment index
\* smaller than the feature's point count minus one.
C31_TransitionsAlternate ==
  []TransitionsAlternate /\ [][EmittedWellFormed]_vars

\* A feature that starts inside the borders left them and came back: an
\* exit at its first segment and an enter at its second.
C31_Witness ==
  /\ scanPc = "loop"
  /\ scanI = 3
  /\ InBorders(GetPoint(scanF, 0))
  /\ Len(TransitionsOfScanned) = 2
  /\ ~TransitionsOfScanned[1].enterSide
  /\ TransitionsOfScanned[2].enterSide
  /\ TransitionsOfScanned[2].segmentIdx = 1

(***************************************************************************)
(* The UpdateUserMarkLayer case of the backend renderer.                   *)
(***************************************************************************)
\* The messages the backend has posted to the render thread, waiting or
\* processed.
PostedToRender ==
  {renderQueue[k] : k \in DOMAIN renderQueue} \cup {processed[k] : k \in DOMAIN processed}

\* The messages of the user mark layers among them.
UserMarkPosted ==
  {m \in PostedToRender : m.type \in {"ClearUserMarkLayer", "FlushUserMarks"}}

\* The calls come in pairs, a StartProcess and the EndProcess of the same
\* message after it; the messages posted between the two are none, or a
\* ClearUserMarkLayerMessage and after it a FlushUserMarksMessage of the
\* layer; and no message of a user mark layer was posted outside a pair.
CallsBracketPosts ==
  /\ Len(userMarkCalls) % 2 = 0
  /\ \A k \in DOMAIN userMarkCalls :
       k % 2 = 1 =>
         LET start == userMarkCalls[k]
             end == userMarkCalls[k + 1]
         IN /\ start.call = "StartProcess"
            /\ end.call = "EndProcess"
            /\ end.layerId = start.layerId
            /\ end.posted \in {start.posted, start.posted + 2}
            /\ end.posted = start.posted + 2 =>
                 /\ \E m \in UserMarkPosted :
                      /\ m.type = "ClearUserMarkLayer"
                      /\ m.layerId = start.layerId
                      /\ m.stamp = start.posted + 1
                 /\ \E m \in UserMarkPosted :
                      /\ m.type = "FlushUserMarks"
                      /\ m.layerId = start.layerId
                      /\ m.stamp = start.posted + 2
  /\ \A m \in UserMarkPosted :
       \E k \in DOMAIN userMarkCalls :
         /\ k % 2 = 1
         /\ userMarkCalls[k].layerId = m.layerId
         /\ userMarkCalls[k].posted < m.stamp
         /\ m.stamp <= userMarkCalls[k + 1].posted

\* The backend handles an UpdateUserMarkLayerMessage: both calls are made,
\* and two messages are posted when the provider of the layer is dirty and
\* none when it is not.
UserMarkLayerHandled ==
  (backendQueue # <<>> /\ backendQueue' = Tail(backendQueue)
   /\ Head(backendQueue).type = "UpdateUserMarkLayer")
    => LET layerId == Head(backendQueue).layerId
       IN /\ Len(userMarkCalls') = Len(userMarkCalls) + 2
          /\ userMarkCalls'[Len(userMarkCalls) + 1].call = "StartProcess"
          /\ userMarkCalls'[Len(userMarkCalls) + 1].layerId = layerId
          /\ userMarkCalls'[Len(userMarkCalls) + 1].posted = postedCount
          /\ userMarkCalls'[Len(userMarkCalls) + 2].call = "EndProcess"
          /\ userMarkCalls'[Len(userMarkCalls) + 2].posted = postedCount'
          /\ postedCount' = IF providerDirty[layerId] THEN postedCount + 2
                                                      ELSE postedCount
          /\ ~providerDirty[layerId] => renderQueue' = renderQueue

\* C32: handling UpdateUserMarkLayer brackets the work between StartProcess
\* and EndProcess, EndProcess being called whether or not the provider is
\* dirty; when the provider is dirty the ClearUserMarkLayerMessage of the
\* layer is posted to the render thread before the FlushUserMarksMessage of
\* the same layer, and when it is not dirty neither is posted.
C32_UserMarkLayerBracketed ==
  []CallsBracketPosts /\ [][UserMarkLayerHandled]_vars

\* A layer whose provider was not dirty and a layer whose provider was dirty
\* were handled, and the render thread has processed the two messages of
\* the dirty one, the clear before the flush.
C32_Witness ==
  /\ Len(userMarkCalls) = 4
  /\ userMarkCalls[2].posted = userMarkCalls[1].posted
  /\ userMarkCalls[4].posted = userMarkCalls[3].posted + 2
  /\ userMarkCalls[3].layerId # userMarkCalls[1].layerId
  /\ Len(processed) = 2
  /\ processed[1].type = "ClearUserMarkLayer"
  /\ processed[2].type = "FlushUserMarks"
  /\ processed[2].layerId = processed[1].layerId

====
